---- MODULE Spec2Model ----
(***************************************************************************)
(* A model of req's front end: the .http scanner (a worker goroutine that  *)
(* sends tokens over a buffered channel) and the parser that consumes it.  *)
(*                                                                         *)
(* The source text is a sequence of bytes (0..255); offsets are 0-indexed  *)
(* as in the Go code, so byte i of the source is src[i + 1].               *)
(***************************************************************************)
EXTENDS Integers, Sequences, FiniteSets, TLC

VARIABLES
    src,        \* Scanner.src / Parser.src: the raw source text
    hasHandler, \* whether a non-nil syntax.ErrorHandler was installed
    consumer,   \* who receives from the channel: "scan", "all" or "parser"
    s,          \* the Scanner's cursor fields: start, pos, line, currentLineOffset
    state,      \* the scanFn that run() will call next, "nil" once it has returned nil
    pending,    \* what the running scanFn still has to do: channel sends, handler call
    tokens,     \* Scanner.tokens: the buffered channel's contents
    closed,     \* TRUE once run() has executed close(s.tokens)
    sink,       \* every call made to the ErrorHandler, in order
    got,        \* the tokens the consumer has received so far
    cstate,     \* where the consumer is
    result,     \* what Parse returned (parser consumer only)
    resolved,   \* what ResolveFile returned for the File of Parse
    console,    \* the writer of PrettyConsoleHandler and the calls still writing to it
    first       \* what Parse returned for the same source before a handler was installed

vars == <<src, hasHandler, consumer, s, state, pending, tokens, closed, sink, got,
          cstate, result, resolved, console, first>>

----------------------------------------------------------------------------
\* A local variable of the code, or a parameter passed by value: val is
\* computed once and F is applied to the result.
With(val, F(_)) == CHOOSE r \in {F(v) : v \in {val}} : TRUE

----------------------------------------------------------------------------
(* Program constants *)

eof == -1

bufferSize == 32

RuneError == 65533

----------------------------------------------------------------------------
(* unicode/utf8 and unicode helpers, as the scanner uses them *)

IsCont(b) == b >= 128 /\ b <= 191

\* The byte at 0-indexed offset i, -1 past the end.
ByteAt(i0) ==
    With(i0, LAMBDA i :
    IF i >= 0 /\ i < Len(src) THEN src[i + 1] ELSE -1)

\* utf8.DecodeRune(src[p:]) for p < len(src): the rune and its width in bytes.
\* Every malformed or truncated sequence decodes as (RuneError, 1).
DecodeRune(p0) ==
    With(p0, LAMBDA p :
    With(ByteAt(p), LAMBDA b0 :
    With(ByteAt(p + 1), LAMBDA b1 :
    With(ByteAt(p + 2), LAMBDA b2 :
    With(ByteAt(p + 3), LAMBDA b3 :
    With([char |-> RuneError, width |-> 1], LAMBDA bad :
        IF b0 < 128 THEN [char |-> b0, width |-> 1]
        ELSE IF b0 >= 194 /\ b0 <= 223
        THEN IF IsCont(b1)
             THEN [char |-> (b0 - 192) * 64 + (b1 - 128), width |-> 2]
             ELSE bad
        ELSE IF b0 >= 224 /\ b0 <= 239
        THEN With(IF b0 = 224 THEN 160 ELSE 128, LAMBDA lo :
             With(IF b0 = 237 THEN 159 ELSE 191, LAMBDA hi :
                 IF b1 >= lo /\ b1 <= hi /\ IsCont(b2)
                 THEN [char |-> (b0 - 224) * 4096 + (b1 - 128) * 64 + (b2 - 128),
                       width |-> 3]
                 ELSE bad))
        ELSE IF b0 >= 240 /\ b0 <= 244
        THEN With(IF b0 = 240 THEN 144 ELSE 128, LAMBDA lo :
             With(IF b0 = 244 THEN 143 ELSE 191, LAMBDA hi :
                 IF b1 >= lo /\ b1 <= hi /\ IsCont(b2) /\ IsCont(b3)
                 THEN [char |-> (b0 - 240) * 262144 + (b1 - 128) * 4096
                                 + (b2 - 128) * 64 + (b3 - 128),
                       width |-> 4]
                 ELSE bad))
        ELSE bad))))))

\* unicode.IsSpace
IsSpace(r) ==
    \/ r \in {9, 10, 11, 12, 13, 32, 133, 160, 5760, 8232, 8233, 8239, 8287, 12288}
    \/ (r >= 8192 /\ r <= 8202)

isLineSpace(r) == r = 32 \/ r = 9

isAlpha(r) == (r >= 97 /\ r <= 122) \/ (r >= 65 /\ r <= 90)

isDigit(r) == r >= 48 /\ r <= 57

isAlphaNumeric(r) == isAlpha(r) \/ isDigit(r)

isIdent(r) == isAlpha(r) \/ isDigit(r) \/ r = 95 \/ r = 45

isText(r) == ~IsSpace(r) /\ r # eof

isFilePath(r) == isIdent(r) \/ r = 46 \/ r = 47 \/ r = 92

\* The predicates the scanner passes to skip and takeWhile, by name.
Holds(pred, r0) ==
    With(r0, LAMBDA r :
    CASE pred = "IsSpace"     -> IsSpace(r)
      [] pred = "isLineSpace" -> isLineSpace(r)
      [] pred = "isIdent"     -> isIdent(r)
      [] pred = "isText"      -> isText(r)
      [] pred = "isDigit"     -> isDigit(r))

\* bytes.HasPrefix(src[p:], lit)
HasPrefix(p0, lit) ==
    With(p0, LAMBDA p :
    /\ p + Len(lit) <= Len(src)
    /\ \A i \in 1..Len(lit) : src[p + i] = lit[i])

\* src[a:b]
Slice(a, b) == SubSeq(src, a + 1, b)

----------------------------------------------------------------------------
(* Literals of the program, as bytes *)

LitHttp     == <<104, 116, 116, 112>>                 \* "http"
LitHTTPVer  == <<72, 84, 84, 80, 47>>                 \* "HTTP/"
LitOpen     == <<123, 123>>                           \* "{{"

\* token.Method: the nine method literals and their kinds.
Method(text0) ==
    With(text0, LAMBDA text :
    CASE text = <<71, 69, 84>>                        -> "MethodGet"
      [] text = <<72, 69, 65, 68>>                    -> "MethodHead"
      [] text = <<80, 79, 83, 84>>                    -> "MethodPost"
      [] text = <<80, 85, 84>>                        -> "MethodPut"
      [] text = <<68, 69, 76, 69, 84, 69>>            -> "MethodDelete"
      [] text = <<67, 79, 78, 78, 69, 67, 84>>        -> "MethodConnect"
      [] text = <<80, 65, 84, 67, 72>>                -> "MethodPatch"
      [] text = <<79, 80, 84, 73, 79, 78, 83>>        -> "MethodOptions"
      [] text = <<84, 82, 65, 67, 69>>                -> "MethodTrace"
      [] OTHER                                        -> "Text")

MethodKinds == {"MethodGet", "MethodHead", "MethodPost", "MethodPut", "MethodDelete",
                "MethodConnect", "MethodPatch", "MethodOptions", "MethodTrace"}

IsMethod(kind) == kind \in MethodKinds

\* token.Keyword: the reserved words of @ directives, anything else is an Ident.
Keyword(text0) ==
    With(text0, LAMBDA text :
    CASE text = <<110, 97, 109, 101>>                         -> "Name"
      [] text = <<116, 105, 109, 101, 111, 117, 116>>         -> "Timeout"
      [] text = <<99, 111, 110, 110, 101, 99, 116, 105, 111, 110, 45,
                  116, 105, 109, 101, 111, 117, 116>>         -> "ConnectionTimeout"
      [] text = <<110, 111, 45, 114, 101, 100, 105, 114, 101, 99, 116>>
                                                              -> "NoRedirect"
      [] text = <<112, 114, 111, 109, 112, 116>>              -> "Prompt"
      [] OTHER                                                -> "Ident")

----------------------------------------------------------------------------
(* Tokens, positions and what a scanFn leaves to be done *)

Token(kind, start, end) == [Kind |-> kind, Start |-> start, End |-> end]

\* The zero value token.Token{}: Kind 0 is EOF.
ZeroToken == Token("EOF", 0, 0)

FileName == <<102>>                                   \* "f"

Position(name, offset, line, startCol, endCol) ==
    [Name |-> name, Offset |-> offset, Line |-> line,
     StartCol |-> startCol, EndCol |-> endCol]

ZeroPosition == Position(<<>>, 0, 0, 0, 0)

\* One call of the ErrorHandler: who made it, the position, the message and
\* the value formatted into the message (0 when there is none).
Call(by, pos, msg, arg) == [by |-> by, pos |-> pos, msg |-> msg, arg |-> arg]

NoCall == Call("", ZeroPosition, "", 0)

SendOp(tok) == [op |-> "send", tok |-> tok, call |-> NoCall]

HandlerOp(call) == [op |-> "handler", tok |-> ZeroToken, call |-> call]

----------------------------------------------------------------------------
(* The scanner's primitives.  x is the scanner's cursor together with      *)
(* x.out, the sends and handler calls the running scanFn has made so far.  *)

\* Scanner.peek
peek(x0) ==
    With(x0, LAMBDA x :
    IF x.pos >= Len(src) THEN eof ELSE DecodeRune(x.pos).char)

\* A faulty next that lacks the check for the end of the source.
nextPastEnd(x0) ==
    With(x0, LAMBDA x :
    With(DecodeRune(x.pos), LAMBDA d :
    With(x.pos + d.width, LAMBDA p :
        IF d.char = 10
        THEN [x EXCEPT !.pos = p, !.line = @ + 1, !.currentLineOffset = p]
        ELSE [x EXCEPT !.pos = p])))

\* Scanner.next: the scanner after the call; the rune it returns is peek(x).
next(x0) ==
    With(x0, LAMBDA x :
    IF x.pos >= Len(src) THEN x
    ELSE With(DecodeRune(x.pos), LAMBDA d :
         With(x.pos + d.width, LAMBDA p :
             IF d.char = 10
             THEN [x EXCEPT !.pos = p, !.line = @ + 1, !.currentLineOffset = p]
             ELSE [x EXCEPT !.pos = p])))

RECURSIVE takeWhile(_, _)
\* Scanner.takeWhile
takeWhile(x0, pred) ==
    With(x0, LAMBDA x :
    IF Holds(pred, peek(x)) THEN takeWhile(next(x), pred) ELSE x)

\* Scanner.skip
skip(x, pred) ==
    With(takeWhile(x, pred), LAMBDA a :
        [a EXCEPT !.start = a.pos])

RECURSIVE takeUntil(_, _)
\* Scanner.takeUntil
takeUntil(x0, runes) ==
    With(x0, LAMBDA x :
    IF peek(x) \in runes THEN x ELSE takeUntil(next(x), runes))

\* A faulty emit that leaves start where the emitted token began.
emitKeepsStart(x, kind) ==
    [x EXCEPT !.out = Append(@, SendOp(Token(kind, x.start, x.pos)))]

\* Scanner.emit
emit(x0, kind) ==
    With(x0, LAMBDA x :
    [x EXCEPT !.out = Append(@, SendOp(Token(kind, x.start, x.pos))),
              !.start = x.pos])

\* A faulty error that reports to the handler but emits no Error token.
errorNoToken(x0, msg, arg) ==
    With(x0, LAMBDA x :
    With(Position(FileName, x.pos, x.line, 1 + x.start - x.currentLineOffset,
                  1 + x.pos - x.currentLineOffset), LAMBDA position :
        IF ~hasHandler THEN x
        ELSE [x EXCEPT !.out = Append(@, HandlerOp(Call("scanner", position, msg, arg)))]))

\* A faulty error that sends the Error token and never calls the handler.
errorSilent(x, msg, arg) == emit(x, "Error")

\* Scanner.error (and errorf): the Error token is sent first, then the handler,
\* if any, is called with the position computed from the cursor after the send.
\* A faulty error that calls the handler twice.
errorTwice(x, msg, arg) ==
    With(emit(x, "Error"), LAMBDA a :
    With(Position(FileName, a.pos, a.line,
                             1 + a.start - a.currentLineOffset,
                             1 + a.pos - a.currentLineOffset), LAMBDA position :
        IF ~hasHandler THEN a
        ELSE [a EXCEPT !.out = Append(Append(@,
                                   HandlerOp(Call("scanner", position, msg, arg))),
                                   HandlerOp(Call("scanner", position, msg, arg)))]))

error(x, msg, arg) ==
    With(emit(x, "Error"), LAMBDA a :
    With(Position(FileName, a.pos, a.line,
                             1 + a.start - a.currentLineOffset,
                             1 + a.pos - a.currentLineOffset), LAMBDA position :
        IF ~hasHandler THEN a
        ELSE [a EXCEPT !.out = Append(@, HandlerOp(Call("scanner", position, msg, arg)))]))

\* What a scanFn returns: the scanner it leaves and the next state.
Ret(x, fn) == [x |-> x, fn |-> fn]

----------------------------------------------------------------------------
(* The scanner's states *)

\* A faulty scanStart that goes on scanning after it has reported an error.
scanStartGoesOn(x) ==
    With(skip(x, "IsSpace"), LAMBDA a :
    With(peek(a), LAMBDA char :
    With(next(a), LAMBDA b :
        IF char = eof THEN Ret(emit(b, "EOF"), "nil")
        ELSE IF char = RuneError
        THEN Ret(error(b, "invalid utf8 character: %U", char), "scanStart")
        ELSE IF char = 35 THEN Ret(b, "scanHash")
        ELSE IF char = 47 THEN Ret(b, "scanSlash")
        ELSE IF char = 64 THEN Ret(b, "scanAt")
        ELSE IF isIdent(char) THEN Ret(b, "scanText")
        ELSE Ret(error(b, "unrecognised character: %q", char), "scanStart"))))

\* A faulty scanStart that looks at an invalid byte without consuming it and
\* starts over.
scanStartStuck(x) ==
    With(skip(x, "IsSpace"), LAMBDA a :
    With(peek(a), LAMBDA char :
    With(next(a), LAMBDA b :
        IF char = eof THEN Ret(emit(b, "EOF"), "nil")
        ELSE IF char = RuneError THEN Ret(a, "scanStart")
        ELSE IF char = 35 THEN Ret(b, "scanHash")
        ELSE IF char = 47 THEN Ret(b, "scanSlash")
        ELSE IF char = 64 THEN Ret(b, "scanAt")
        ELSE IF isIdent(char) THEN Ret(b, "scanText")
        ELSE Ret(error(b, "unrecognised character: %q", char), "nil"))))

\* A faulty scanStart that takes an invalid byte for the start of a text.
scanStartTakesInvalid(x) ==
    With(skip(x, "IsSpace"), LAMBDA a :
    With(peek(a), LAMBDA char :
    With(next(a), LAMBDA b :
        IF char = eof THEN Ret(emit(b, "EOF"), "nil")
        ELSE IF char = 35 THEN Ret(b, "scanHash")
        ELSE IF char = 47 THEN Ret(b, "scanSlash")
        ELSE IF char = 64 THEN Ret(b, "scanAt")
        ELSE IF isIdent(char) \/ char = RuneError THEN Ret(b, "scanText")
        ELSE Ret(error(b, "unrecognised character: %q", char), "nil"))))

scanStart(x) ==
    With(skip(x, "IsSpace"), LAMBDA a :
    With(peek(a), LAMBDA char :
    With(next(a), LAMBDA b :
        IF char = eof THEN Ret(emit(b, "EOF"), "nil")
        ELSE IF char = RuneError
        THEN Ret(error(b, "invalid utf8 character: %U", char), "nil")
        ELSE IF char = 35 THEN Ret(b, "scanHash")
        ELSE IF char = 47 THEN Ret(b, "scanSlash")
        ELSE IF char = 64 THEN Ret(b, "scanAt")
        ELSE IF isIdent(char) THEN Ret(b, "scanText")
        ELSE Ret(error(b, "unrecognised character: %q", char), "nil"))))

scanHash(x0) ==
    With(x0, LAMBDA x :
    IF peek(x) = 35 THEN Ret(x, "scanSeparator") ELSE Ret(x, "scanComment"))

scanComment(x) ==
    With(skip(x, "isLineSpace"), LAMBDA a :
        IF peek(a) = 64 THEN Ret(next(a), "scanAt")
        ELSE Ret(emit(takeUntil(a, {10, eof}), "Comment"), "scanStart"))

scanSlash(x0) ==
    With(x0, LAMBDA x :
    IF peek(x) # 47 THEN Ret(next(x), "scanStart")
    ELSE Ret(next(x), "scanComment"))

sepLength == 3

RECURSIVE absorbHashes(_, _)
\* The loop of scanSeparator: absorb no more than sepLength '#'.
absorbHashes(x0, count) ==
    With(x0, LAMBDA x :
    IF peek(x) = 35 /\ count < sepLength
    THEN absorbHashes(next(x), count + 1)
    ELSE x)

scanSeparator(x) ==
    With(emit(absorbHashes(x, 0), "Separator"), LAMBDA a :
    With(skip(a, "isLineSpace"), LAMBDA b :
        IF peek(b) # 10 /\ peek(b) # eof THEN Ret(b, "scanComment")
        ELSE Ret(b, "scanStart")))

scanAt(x) ==
    With(emit(x, "At"), LAMBDA a :
        IF HasPrefix(a.pos, LitHttp) THEN Ret(a, "scanURL")
        ELSE IF isAlpha(peek(a)) THEN Ret(a, "scanIdent")
        ELSE Ret(a, "scanStart"))

scanIdent(x) ==
    With(takeWhile(x, "isIdent"), LAMBDA a :
    With(Keyword(Slice(a.start, a.pos)), LAMBDA kind :
    With(skip(emit(a, kind), "isLineSpace"), LAMBDA b :
        IF kind = "Prompt" THEN Ret(b, "scanPrompt")
        ELSE IF peek(b) = 61 THEN Ret(b, "scanEq")
        ELSE IF isAlphaNumeric(peek(b)) THEN Ret(b, "scanText")
        ELSE Ret(b, "scanStart"))))

scanPrompt(x) ==
    With(skip(emit(takeWhile(x, "isIdent"), "Ident"), "isLineSpace"), LAMBDA a :
        IF isAlphaNumeric(peek(a))
        THEN Ret(emit(takeUntil(a, {10, eof}), "Text"), "scanStart")
        ELSE Ret(a, "scanStart"))

scanEq(x) ==
    With(skip(emit(next(x), "Eq"), "isLineSpace"), LAMBDA a :
        IF HasPrefix(a.pos, LitHttp) THEN Ret(a, "scanURL")
        ELSE IF isAlphaNumeric(peek(a)) THEN Ret(a, "scanText")
        ELSE Ret(a, "scanStart"))

\* A faulty scanText that takes what follows a word for a body.
scanTextToBody(x) ==
    With(takeWhile(x, "isText"), LAMBDA a :
    With(Method(Slice(a.start, a.pos)), LAMBDA kind :
    With(skip(emit(a, kind), "isLineSpace"), LAMBDA b :
        IF IsMethod(kind) THEN Ret(b, "scanURL") ELSE Ret(b, "scanBody"))))

scanText(x) ==
    With(takeWhile(x, "isText"), LAMBDA a :
    With(Method(Slice(a.start, a.pos)), LAMBDA kind :
    With(skip(emit(a, kind), "isLineSpace"), LAMBDA b :
        IF IsMethod(kind) THEN Ret(b, "scanURL") ELSE Ret(b, "scanStart"))))

\* What follows a URL, an HTTP version or a header value once whitespace is
\* skipped: more headers, the next request or the end, or a body.
afterLine(x0) ==
    With(x0, LAMBDA x :
    IF isAlpha(peek(x)) THEN Ret(x, "scanHeaders")
    ELSE IF peek(x) = 35 \/ peek(x) = eof THEN Ret(x, "scanStart")
    ELSE Ret(x, "scanBody"))

scanURL(x0) ==
    With(x0, LAMBDA x :
    IF ~HasPrefix(x.pos, LitHttp) /\ ~HasPrefix(x.pos, LitOpen)
    THEN Ret(error(x, "HTTP methods must be followed by a valid URL", 0), "nil")
    ELSE With(skip(emit(takeWhile(x, "isText"), "URL"), "isLineSpace"), LAMBDA a :
             IF HasPrefix(a.pos, LitHTTPVer) THEN Ret(a, "scanHTTPVersion")
             ELSE afterLine(skip(a, "IsSpace"))))

httpLen == 5

RECURSIVE nextTimes(_, _)
nextTimes(x0, n) ==
    With(x0, LAMBDA x :
    IF n = 0 THEN x ELSE nextTimes(next(x), n - 1))

RECURSIVE versionDigits(_)
\* The digit loop of scanHTTPVersion: the scanner it leaves, and whether the
\* number literal was well formed.
versionDigits(x0) ==
    With(x0, LAMBDA x :
    IF ~isDigit(peek(x)) THEN [x |-> x, ok |-> TRUE]
    ELSE With(next(x), LAMBDA a :
             IF peek(a) = 46
             THEN With(next(a), LAMBDA b :
                      IF ~isDigit(peek(b)) THEN [x |-> b, ok |-> FALSE]
                      ELSE versionDigits(takeWhile(b, "isDigit")))
             ELSE versionDigits(a)))

scanHTTPVersion(x) ==
    With(versionDigits(nextTimes(x, httpLen)), LAMBDA v :
        IF ~v.ok
        THEN Ret(error(v.x, "bad number literal in HTTP version, illegal char %q",
                       peek(v.x)), "nil")
        ELSE afterLine(skip(emit(v.x, "HTTPVersion"), "IsSpace")))

\* A faulty scanHeaders that, at the end of the source, scans for a header
\* again instead of reporting the unfinished one.
scanHeadersStuck(x) ==
    With(takeWhile(x, "isIdent"), LAMBDA a :
        IF peek(a) = eof THEN Ret(a, "scanHeaders")
        ELSE With(emit(a, "Header"), LAMBDA b :
                 IF peek(b) # 58
                 THEN Ret(error(b, "expected ':' got %q", peek(b)), "nil")
                 ELSE With(skip(emit(next(b), "Colon"), "isLineSpace"), LAMBDA c :
                      With(emit(takeUntil(c, {10, eof}), "Text"), LAMBDA d :
                          afterLine(skip(d, "IsSpace"))))))

scanHeaders(x) ==
    With(takeWhile(x, "isIdent"), LAMBDA a :
        IF peek(a) = eof THEN Ret(error(a, "unexpected eof", 0), "nil")
        ELSE With(emit(a, "Header"), LAMBDA b :
                 IF peek(b) # 58
                 THEN Ret(error(b, "expected ':' got %q", peek(b)), "nil")
                 ELSE With(skip(emit(next(b), "Colon"), "isLineSpace"), LAMBDA c :
                      With(emit(takeUntil(c, {10, eof}), "Text"), LAMBDA d :
                          afterLine(skip(d, "IsSpace"))))))

scanBody(x0) ==
    With(x0, LAMBDA x :
    IF peek(x) = 60 THEN Ret(x, "scanLeftAngle")
    ELSE IF peek(x) = 62 THEN Ret(x, "scanRightAngle")
    ELSE With(skip(emit(takeUntil(x, {35, eof, 62}), "Body"), "IsSpace"), LAMBDA a :
             IF peek(a) = 62 THEN Ret(a, "scanRightAngle")
             ELSE Ret(a, "scanStart")))

\* The optional path after '<' or '>'.
scanPath(x) ==
    With(skip(x, "isLineSpace"), LAMBDA a :
        IF isFilePath(peek(a)) THEN emit(takeWhile(a, "isText"), "Text") ELSE a)

scanLeftAngle(x) ==
    With(skip(scanPath(emit(next(x), "LeftAngle")), "IsSpace"), LAMBDA a :
        IF peek(a) = 62 THEN Ret(a, "scanRightAngle") ELSE Ret(a, "scanStart"))

scanRightAngle(x) ==
    Ret(scanPath(emit(next(x), "RightAngle")), "scanStart")

\* state(s): the scanFn named fn applied to the scanner.
Apply(fn, x0) ==
    With(x0, LAMBDA x :
    CASE fn = "scanStart"       -> scanStart(x)
      [] fn = "scanHash"        -> scanHash(x)
      [] fn = "scanComment"     -> scanComment(x)
      [] fn = "scanSlash"       -> scanSlash(x)
      [] fn = "scanSeparator"   -> scanSeparator(x)
      [] fn = "scanAt"          -> scanAt(x)
      [] fn = "scanIdent"       -> scanIdent(x)
      [] fn = "scanPrompt"      -> scanPrompt(x)
      [] fn = "scanEq"          -> scanEq(x)
      [] fn = "scanText"        -> scanText(x)
      [] fn = "scanURL"         -> scanURL(x)
      [] fn = "scanHTTPVersion" -> scanHTTPVersion(x)
      [] fn = "scanHeaders"     -> scanHeaders(x)
      [] fn = "scanBody"        -> scanBody(x)
      [] fn = "scanLeftAngle"   -> scanLeftAngle(x)
      [] fn = "scanRightAngle"  -> scanRightAngle(x))

----------------------------------------------------------------------------
(* syntax.PrettyConsoleHandler(w): one call of the handler it returns     *)
(* writes to w several times, and nothing in it excludes another call.     *)
(* The handler reads the file named in the position; its contents are src. *)

\* The goroutines that call the handler: the scanner's worker and the
\* goroutine that runs the parser.
Goroutines == {"scanner", "parser"}

\* The console before any call; on tells whether the installed handler is
\* PrettyConsoleHandler(w).  out are the writes made to w, each with the
\* goroutine that made it and the index in sink of the call it belongs to;
\* todo are the writes that the call a goroutine is in has still to make.
NewConsole(on) == [on |-> on, out |-> <<>>, todo |-> [g \in Goroutines |-> 0]]

\* len(bytes.Split(contents, []byte("\n")))
Lines == 1 + Cardinality({i \in 1..Len(src) : src[i] = 10})

Max(a, b) == IF a >= b THEN a ELSE b

\* The number of Fprintf calls of one call of the handler: the position
\* and message, each line i with startLine <= i <= endLine, and the
\* underline after line pos.Line.
Writes(pos) ==
    1 + Cardinality({i \in 1..Lines : /\ i >= Max(pos.Line - 3, 0)
                                      /\ i <= Max(pos.Line + 3, Lines)})
      + Cardinality({i \in 1..Lines : /\ i >= Max(pos.Line - 3, 0)
                                      /\ i <= Max(pos.Line + 3, Lines)
                                      /\ i = pos.Line})

\* The goroutine is inside a call of the handler.
InHandler(g) == console.todo[g] > 0

\* The goroutine calls the handler: with PrettyConsoleHandler the call has
\* its writes to make before it returns.
Invoke(g, call) ==
    IF console.on THEN [console EXCEPT !.todo[g] = Writes(call.pos)] ELSE console

\* The index in sink of the call the goroutine made last.
LastCall(g) == CHOOSE i \in 1..Len(sink) :
                   /\ sink[i].by = g
                   /\ \A j \in (i + 1)..Len(sink) : sink[j].by # g

\* One fmt.Fprintf(w, ...) of a call of the handler.
ConsoleWrite ==
    /\ \E g \in Goroutines :
           /\ InHandler(g)
           /\ console' = [console EXCEPT
                              !.out = Append(@, [by |-> g, call |-> LastCall(g)]),
                              !.todo[g] = @ - 1]
    /\ UNCHANGED <<src, hasHandler, consumer, s, state, pending, tokens, closed, sink,
                   got, cstate, result, resolved, first>>

----------------------------------------------------------------------------

(* The worker goroutine: Scanner.run *)

Cursor(x0) ==
    With(x0, LAMBDA x :
    [start |-> x.start, pos |-> x.pos, line |-> x.line,
              currentLineOffset |-> x.currentLineOffset])

Running(c0) ==
    With(c0, LAMBDA c :
    [start |-> c.start, pos |-> c.pos, line |-> c.line,
               currentLineOffset |-> c.currentLineOffset, out |-> <<>>])

\* One iteration of run's loop: state = state(s).  The sends and the handler
\* call the scanFn makes are carried out one by one by Send and Handler, and
\* the next iteration starts when they are all done.
\* The assignments one call state(s) makes: r is what the scanFn leaves.
Resume(r) ==
    /\ s' = Cursor(r.x)
    /\ pending' = r.x.out
    /\ state' = r.fn

Run ==
    /\ ~InHandler("scanner")
    /\ state # "nil"
    /\ pending = <<>>
    /\ \E r \in {Apply(state, Running(s))} : Resume(r)
    /\ UNCHANGED <<src, hasHandler, consumer, tokens, closed, sink, got, cstate, result,
                   resolved, console, first>>

\* A faulty send on a channel that takes one token fewer than bufferSize.
SendSmallBuffer ==
    /\ ~InHandler("scanner")
    /\ pending # <<>>
    /\ Head(pending).op = "send"
    /\ Len(tokens) < bufferSize - 1
    /\ tokens' = Append(tokens, Head(pending).tok)
    /\ pending' = Tail(pending)
    /\ UNCHANGED <<src, hasHandler, consumer, s, state, closed, sink, got, cstate,
                   result, resolved, console, first>>

\* s.tokens <- token: blocks while the channel holds bufferSize tokens.
Send ==
    /\ ~InHandler("scanner")
    /\ pending # <<>>
    /\ Head(pending).op = "send"
    /\ Len(tokens) < bufferSize
    /\ tokens' = Append(tokens, Head(pending).tok)
    /\ pending' = Tail(pending)
    /\ UNCHANGED <<src, hasHandler, consumer, s, state, closed, sink, got, cstate,
                   result, resolved, console, first>>

\* s.handler(position, msg) in Scanner.error
Handler ==
    /\ ~InHandler("scanner")
    /\ pending # <<>>
    /\ Head(pending).op = "handler"
    /\ sink' = Append(sink, Head(pending).call)
    /\ console' = Invoke("scanner", Head(pending).call)
    /\ pending' = Tail(pending)
    /\ UNCHANGED <<src, hasHandler, consumer, s, state, tokens, closed, got, cstate,
                   result, resolved, first>>

\* A faulty end of run that returns without closing the channel.
CloseMissing ==
    /\ state = "nil"
    /\ pending = <<>>
    /\ ~closed
    /\ UNCHANGED vars

\* A faulty end of run that closes the channel while the handler is still
\* writing.
CloseInHandler ==
    /\ state = "nil"
    /\ pending = <<>>
    /\ ~closed
    /\ closed' = TRUE
    /\ UNCHANGED <<src, hasHandler, consumer, s, state, pending, tokens, sink, got,
                   cstate, result, resolved, console, first>>

\* close(s.tokens), the last statement of run.
Close ==
    /\ ~InHandler("scanner")
    /\ state = "nil"
    /\ pending = <<>>
    /\ ~closed
    /\ closed' = TRUE
    /\ UNCHANGED <<src, hasHandler, consumer, s, state, pending, tokens, sink, got,
                   cstate, result, resolved, console, first>>

Worker == Run \/ Send \/ Handler \/ Close

----------------------------------------------------------------------------
(* Receiving from the channel *)

\* tok, ok := <-s.tokens can complete when a token is buffered or the channel
\* is closed; a closed and drained channel yields the zero token and ok = false.
CanReceive == tokens # <<>> \/ closed

Received == IF tokens # <<>> THEN [tok |-> Head(tokens), ok |-> TRUE]
            ELSE [tok |-> ZeroToken, ok |-> FALSE]

AfterReceive == IF tokens # <<>> THEN Tail(tokens) ELSE tokens

\* How many receives found the channel closed and drained.
RECURSIVE ClosedReceives(_)
ClosedReceives(g0) ==
    With(g0, LAMBDA g :
    IF g = <<>> THEN 0
    ELSE (IF Head(g).ok THEN 0 ELSE 1) + ClosedReceives(Tail(g)))

MaxExtraScans == 2

\* Scanner.Scan, called directly by a consumer that keeps calling it.
Scan ==
    /\ consumer = "scan"
    /\ CanReceive
    /\ ClosedReceives(got) < MaxExtraScans
    /\ got' = Append(got, Received)
    /\ tokens' = AfterReceive
    /\ UNCHANGED <<src, hasHandler, consumer, s, state, pending, closed, sink, cstate,
                   result, resolved, console, first>>

\* One iteration of the loop of Scanner.All with a yield that returns true:
\* the token is yielded, or the iterator returns because the channel is closed.
AllNext ==
    /\ consumer = "all"
    /\ cstate = "run"
    /\ CanReceive
    /\ IF Received.ok
       THEN /\ got' = Append(got, Received)
            /\ cstate' = cstate
       ELSE /\ got' = got
            /\ cstate' = "done"
    /\ tokens' = AfterReceive
    /\ UNCHANGED <<src, hasHandler, consumer, s, state, pending, closed, sink, result,
                   resolved, console, first>>

\* One iteration of the loop of Scanner.All where yield returns false (the
\* range loop over All() was left early): the token is yielded and All returns.
AllBreak ==
    /\ consumer = "all"
    /\ cstate = "run"
    /\ tokens # <<>>
    /\ got' = Append(got, Received)
    /\ tokens' = AfterReceive
    /\ cstate' = "broke"
    /\ UNCHANGED <<src, hasHandler, consumer, s, state, pending, closed, sink, result,
                   resolved, console, first>>

----------------------------------------------------------------------------
(* The parser's data: syntax.File, syntax.Request, durations and maps *)

\* A time.Duration, kept as sign, whole seconds and nanoseconds below a
\* second so that its value stays within the integers TLC computes with.
Duration(neg, sec, nsec) == [neg |-> neg, sec |-> sec, nsec |-> nsec]

ZeroDuration == Duration(FALSE, 0, 0)

\* A nil map[string]string; the parser creates its maps only to insert into
\* them, so a map of the parser is nil exactly when it has no key.
NilMap == <<>>

MapSet(m0, key0, value) ==
    With(m0, LAMBDA m :
    With(key0, LAMBDA key :
    [k \in (DOMAIN m) \cup {key} |-> IF k = key THEN value ELSE m[k]]))

\* syntax.Request{}, with the fields Comment and Prompts that spec.go reads
\* from it.
ZeroRequest ==
    [Vars |-> NilMap, Headers |-> NilMap, Prompts |-> <<>>, Name |-> <<>>,
     Comment |-> <<>>, Method |-> <<>>,
     URL |-> <<>>, HTTPVersion |-> <<>>, BodyFile |-> <<>>, ResponseRef |-> <<>>,
     Body |-> <<>>, BodyNil |-> TRUE, Timeout |-> ZeroDuration,
     ConnectionTimeout |-> ZeroDuration, NoRedirect |-> FALSE]

\* syntax.File{}, with the field Prompts that spec.go reads from it.
ZeroFile ==
    [Name |-> <<>>, Vars |-> NilMap, Prompts |-> <<>>, Requests |-> <<>>,
     Timeout |-> ZeroDuration,
     ConnectionTimeout |-> ZeroDuration, NoRedirect |-> FALSE]

RECURSIVE Digits(_)
\* The decimal digits of n >= 0, as bytes.
Digits(n) == IF n < 10 THEN <<48 + n>> ELSE Digits(n \div 10) \o <<48 + (n % 10)>>

\* fmt.Sprintf("#%d", n)
RequestNumberName(n) == <<35>> \o Digits(n)

----------------------------------------------------------------------------
(* time.ParseDuration, as the parser uses it on the text of a token.       *)
(* Durations are computed exactly for digit runs of at most nine digits    *)
(* and totals below 2^31 seconds.                                          *)

RECURSIVE DigitRunEnd(_, _)
\* The first index at or after i of b that holds no digit.
DigitRunEnd(b0, i0) ==
    With(b0, LAMBDA b :
    With(i0, LAMBDA i :
    IF i <= Len(b) /\ isDigit(b[i]) THEN DigitRunEnd(b, i + 1) ELSE i))

RECURSIVE NumVal(_, _, _)
\* The number written by the digits b[i..j-1], 0 when there are none.
NumVal(b0, i0, j0) ==
    With(b0, LAMBDA b :
    With(i0, LAMBDA i :
    With(j0, LAMBDA j :
    IF j <= i THEN 0 ELSE NumVal(b, i, j - 1) * 10 + (b[j - 1] - 48))))

RECURSIVE UnitEnd(_, _)
\* The first index at or after i of b that holds '.' or a digit.
UnitEnd(b0, i0) ==
    With(b0, LAMBDA b :
    With(i0, LAMBDA i :
    IF i <= Len(b) /\ ~(b[i] = 46 \/ isDigit(b[i])) THEN UnitEnd(b, i + 1) ELSE i))

RECURSIVE Pow10(_)
Pow10(n) == IF n = 0 THEN 1 ELSE 10 * Pow10(n - 1)

\* unitMap: a unit's length as [sec, nsec], sec = -1 for an unknown unit.
Unit(u0) ==
    With(u0, LAMBDA u :
    CASE u = <<110, 115>>       -> [sec |-> 0, nsec |-> 1]          \* ns
      [] u = <<117, 115>>       -> [sec |-> 0, nsec |-> 1000]       \* us
      [] u = <<194, 181, 115>>  -> [sec |-> 0, nsec |-> 1000]       \* U+00B5 s
      [] u = <<206, 188, 115>>  -> [sec |-> 0, nsec |-> 1000]       \* U+03BC s
      [] u = <<109, 115>>       -> [sec |-> 0, nsec |-> 1000000]    \* ms
      [] u = <<115>>            -> [sec |-> 1, nsec |-> 0]          \* s
      [] u = <<109>>            -> [sec |-> 60, nsec |-> 0]         \* m
      [] u = <<104>>            -> [sec |-> 3600, nsec |-> 0]       \* h
      [] OTHER                  -> [sec |-> -1, nsec |-> 0])

Giga == 1000 * 1000 * 1000

\* v > 1<<63/unit, for the units where that can happen to a nine digit v.
UnitOverflow(v0, unit0) ==
    With(v0, LAMBDA v :
    With(unit0, LAMBDA unit :
    \/ unit.sec = 3600 /\ v > 2562047
    \/ unit.sec = 60 /\ v > 153722867))

\* v * unit for an integer part v, as [sec, nsec].
Whole(v0, unit0) ==
    With(v0, LAMBDA v :
    With(unit0, LAMBDA unit :
    IF unit.sec > 0 THEN [sec |-> v * unit.sec, nsec |-> 0]
    ELSE With(Giga \div unit.nsec, LAMBDA per :
             [sec |-> v \div per, nsec |-> (v % per) * unit.nsec])))

\* f * unit / scale for the fraction digits f read at scale 10^digits,
\* truncated to nanoseconds, as [sec, nsec].
Fraction(f0, digits, unit0) ==
    With(f0, LAMBDA f :
    With(unit0, LAMBDA unit :
    With(Pow10(digits), LAMBDA scale :
        IF unit.sec > 0
        THEN With(f * unit.sec, LAMBDA x :
                 [sec |-> x \div scale, nsec |-> (x % scale) * (Giga \div scale)])
        ELSE IF scale <= unit.nsec
        THEN [sec |-> 0, nsec |-> f * (unit.nsec \div scale)]
        ELSE [sec |-> 0, nsec |-> f \div (scale \div unit.nsec)])))

AddDur(a0, b0) ==
    With(a0, LAMBDA a :
    With(b0, LAMBDA b :
    With(a.nsec + b.nsec, LAMBDA n :
        [sec |-> a.sec + b.sec + (n \div Giga), nsec |-> n % Giga])))

BadDuration == [ok |-> FALSE, sec |-> 0, nsec |-> 0]

RECURSIVE DurationTerms(_, _, _)
\* The loop of ParseDuration over the terms <number><unit> of b from index i.
DurationTerms(b0, i0, acc0) ==
    With(b0, LAMBDA b :
    With(i0, LAMBDA i :
    With(acc0, LAMBDA acc :
    IF i > Len(b) THEN [ok |-> TRUE, sec |-> acc.sec, nsec |-> acc.nsec]
    ELSE IF ~(b[i] = 46 \/ isDigit(b[i])) THEN BadDuration
    ELSE With(DigitRunEnd(b, i), LAMBDA j :
         With(j <= Len(b) /\ b[j] = 46, LAMBDA hasDot :
         With(IF hasDot THEN DigitRunEnd(b, j + 1) ELSE j, LAMBDA k :
         With(j > i, LAMBDA pre :
         With(hasDot /\ k > j + 1, LAMBDA post :
         With(UnitEnd(b, k), LAMBDA e :
         With(Unit(SubSeq(b, k, e - 1)), LAMBDA unit :
             IF ~pre /\ ~post THEN BadDuration
             ELSE IF e = k THEN BadDuration
             ELSE IF unit.sec < 0 THEN BadDuration
             ELSE With(NumVal(b, i, j), LAMBDA v :
                  With(IF hasDot THEN NumVal(b, j + 1, k) ELSE 0, LAMBDA f :
                      IF UnitOverflow(v, unit) THEN BadDuration
                      ELSE DurationTerms(b, e,
                               AddDur(AddDur(acc, Whole(v, unit)),
                                      Fraction(f, IF hasDot THEN k - (j + 1) ELSE 0, unit)))))))))))))))

\* time.ParseDuration(text): ok and the duration, the zero duration on error.
ParseDuration(text0) ==
    With(text0, LAMBDA text :
    With(text # <<>> /\ (text[1] = 45 \/ text[1] = 43), LAMBDA signed :
    With(text # <<>> /\ text[1] = 45, LAMBDA neg :
    With(IF signed THEN Tail(text) ELSE text, LAMBDA rest :
        IF rest = <<48>> THEN [ok |-> TRUE, d |-> ZeroDuration]
        ELSE IF rest = <<>> THEN [ok |-> FALSE, d |-> ZeroDuration]
        ELSE With(DurationTerms(rest, 1, [sec |-> 0, nsec |-> 0]), LAMBDA r :
                 IF ~r.ok THEN [ok |-> FALSE, d |-> ZeroDuration]
                 ELSE [ok |-> TRUE,
                       d  |-> Duration(neg /\ (r.sec # 0 \/ r.nsec # 0), r.sec, r.nsec)])))))

----------------------------------------------------------------------------
(* net/url, as far as Parser.validateURL depends on it: whether url.Parse  *)
(* and url.ParseRequestURI return an error.                                *)

\* strings.Index(u, c) as a 1-based index, 0 when c does not occur.
IndexByte(u0, c0) ==
    With(u0, LAMBDA u :
    With(c0, LAMBDA c :
    IF \E i \in 1..Len(u) : u[i] = c
    THEN CHOOSE i \in 1..Len(u) : u[i] = c /\ \A j \in 1..(i - 1) : u[j] # c
    ELSE 0))

\* strings.LastIndex(u, c) as a 1-based index, 0 when c does not occur.
LastIndexByte(u0, c0) ==
    With(u0, LAMBDA u :
    With(c0, LAMBDA c :
    IF \E i \in 1..Len(u) : u[i] = c
    THEN CHOOSE i \in 1..Len(u) : u[i] = c /\ \A j \in (i + 1)..Len(u) : u[j] # c
    ELSE 0))

\* strings.Contains(u, lit)
Contains(u0, lit) ==
    With(u0, LAMBDA u :
    \E i \in 0..(Len(u) - Len(lit)) : \A j \in 1..Len(lit) : u[i + j] = lit[j])

StartsWith(u0, lit) ==
    With(u0, LAMBDA u :
    Len(lit) <= Len(u) /\ \A j \in 1..Len(lit) : u[j] = lit[j])

From(u0, i) ==
    With(u0, LAMBDA u :
    SubSeq(u, i, Len(u)))

\* strings.Index(u, lit) as a 1-based index, 0 when lit does not occur.
Index(u0, lit) ==
    With(u0, LAMBDA u :
    IF Contains(u, lit)
    THEN CHOOSE i \in 1..(Len(u) - Len(lit) + 1) :
             /\ StartsWith(From(u, i), lit)
             /\ \A j \in 1..(i - 1) : ~StartsWith(From(u, j), lit)
    ELSE 0)

ishex(c) == isDigit(c) \/ (c >= 97 /\ c <= 102) \/ (c >= 65 /\ c <= 70)

unhex(c) == IF isDigit(c) THEN c - 48
            ELSE IF c >= 97 /\ c <= 102 THEN c - 97 + 10
            ELSE c - 65 + 10

\* shouldEscape(c, encodeHost)
shouldEscapeHost(c0) ==
    With(c0, LAMBDA c :
    ~(\/ isAlphaNumeric(c)
      \/ c \in {33, 36, 38, 39, 40, 41, 42, 43, 44, 59, 61, 58, 91, 93, 60, 62, 34}
      \/ c \in {45, 95, 46, 126}))

\* unescape(u, mode) returns no error; host says whether mode is encodeHost
\* (otherwise it is a mode without a rule of its own for '%' and for bytes).
unescapeOK(u0, host) ==
    With(u0, LAMBDA u :
    \A i \in 1..Len(u) :
        IF u[i] = 37
        THEN /\ i + 2 <= Len(u)
             /\ ishex(u[i + 1])
             /\ ishex(u[i + 2])
             /\ host => (unhex(u[i + 1]) >= 8 \/ SubSeq(u, i, i + 2) = <<37, 50, 53>>)
        ELSE host => ~(u[i] < 128 /\ shouldEscapeHost(u[i])))

\* unescape(u, encodeZone) returns no error: an escape other than %25 and
\* %20 has to stand for a byte that a host may hold unescaped.
unescapeZoneOK(u0) ==
    With(u0, LAMBDA u :
    \A i \in 1..Len(u) :
        IF u[i] = 37
        THEN /\ i + 2 <= Len(u)
             /\ ishex(u[i + 1])
             /\ ishex(u[i + 2])
             /\ With(16 * unhex(u[i + 1]) + unhex(u[i + 2]), LAMBDA v :
                    \/ SubSeq(u, i, i + 2) = <<37, 50, 53>>
                    \/ v = 32
                    \/ ~shouldEscapeHost(v))
        ELSE ~(u[i] < 128 /\ shouldEscapeHost(u[i])))

\* validOptionalPort
validOptionalPort(port0) ==
    With(port0, LAMBDA port :
    \/ port = <<>>
    \/ port[1] = 58 /\ \A i \in 2..Len(port) : isDigit(port[i]))

\* The bracketed branch of parseHost once the port is known to be valid: i
\* is the index of the last ']' and zone that of the first "%25" before it.
\* With a zone the host is unescaped in three parts, the zone in encodeZone.
hostLiteralOK(host0, i0) ==
    With(host0, LAMBDA host :
    With(i0, LAMBDA i :
    With(Index(SubSeq(host, 1, i - 1), <<37, 50, 53>>), LAMBDA zone :
        IF zone > 0
        THEN /\ unescapeOK(SubSeq(host, 1, zone - 1), TRUE)
             /\ unescapeZoneOK(SubSeq(host, zone, i - 1))
             /\ unescapeOK(From(host, i), TRUE)
        ELSE unescapeOK(host, TRUE))))

\* parseHost returns no error.
parseHostOK(host) ==
    IF StartsWith(host, <<91>>)
    THEN With(LastIndexByte(host, 93), LAMBDA i :
             /\ i > 0
             /\ validOptionalPort(From(host, i + 1))
             /\ hostLiteralOK(host, i))
    ELSE With(LastIndexByte(host, 58), LAMBDA i :
             /\ i > 0 => validOptionalPort(From(host, i))
             /\ unescapeOK(host, TRUE))

\* validUserinfo
validUserinfo(u0) ==
    With(u0, LAMBDA u :
    \A i \in 1..Len(u) :
        \/ isAlphaNumeric(u[i])
        \/ u[i] \in {45, 46, 95, 58, 126, 33, 36, 38, 39, 40, 41, 42, 43, 44, 59, 61,
                     37, 64})

\* parseAuthority returns no error.
parseAuthorityOK(authority0) ==
    With(authority0, LAMBDA authority :
    With(LastIndexByte(authority, 64), LAMBDA i :
        IF i = 0 THEN parseHostOK(authority)
        ELSE /\ parseHostOK(From(authority, i + 1))
             /\ validUserinfo(SubSeq(authority, 1, i - 1))
             /\ unescapeOK(SubSeq(authority, 1, i - 1), FALSE)))

RECURSIVE schemeEnd(_, _)
\* The loop of getScheme from index i: the index of the ':' that ends the
\* scheme, 0 when there is no valid scheme.
schemeEnd(u0, i0) ==
    With(u0, LAMBDA u :
    With(i0, LAMBDA i :
    IF i > Len(u) THEN 0
    ELSE IF isAlpha(u[i]) THEN schemeEnd(u, i + 1)
    ELSE IF isDigit(u[i]) \/ u[i] \in {43, 45, 46}
    THEN IF i = 1 THEN 0 ELSE schemeEnd(u, i + 1)
    ELSE IF u[i] = 58 THEN i
    ELSE 0))

\* getScheme: the scheme, the rest, and whether it returned no error.
getScheme(u0) ==
    With(u0, LAMBDA u :
    With(schemeEnd(u, 1), LAMBDA stop :
        IF stop = 0 THEN [ok |-> TRUE, scheme |-> <<>>, rest |-> u]
        ELSE IF stop = 1 THEN [ok |-> FALSE, scheme |-> <<>>, rest |-> <<>>]
        ELSE [ok |-> TRUE, scheme |-> SubSeq(u, 1, stop - 1), rest |-> From(u, stop + 1)]))

\* parse(rawURL, viaRequest) returns no error.
parseOK(rawURL0, viaRequest) ==
    With(rawURL0, LAMBDA rawURL :
    IF \E i \in 1..Len(rawURL) : rawURL[i] < 32 \/ rawURL[i] = 127 THEN FALSE
    ELSE IF rawURL = <<>> /\ viaRequest THEN FALSE
    ELSE IF rawURL = <<42>> THEN TRUE
    ELSE With(getScheme(rawURL), LAMBDA g :
         With(IndexByte(g.rest, 63), LAMBDA q :
         With(IF q = 0 THEN g.rest ELSE SubSeq(g.rest, 1, q - 1), LAMBDA rest :
         With(g.scheme # <<>>, LAMBDA hasScheme :
             IF ~g.ok THEN FALSE
             ELSE IF ~StartsWith(rest, <<47>>) /\ hasScheme THEN TRUE
             ELSE IF ~StartsWith(rest, <<47>>) /\ viaRequest THEN FALSE
             ELSE IF /\ ~StartsWith(rest, <<47>>)
                     /\ With(IndexByte(rest, 47), LAMBDA slash :
                        With(IF slash = 0 THEN rest
                                       ELSE SubSeq(rest, 1, slash - 1), LAMBDA segment :
                            IndexByte(segment, 58) > 0))
             THEN FALSE
             ELSE IF /\ hasScheme \/ (~viaRequest /\ ~StartsWith(rest, <<47, 47, 47>>))
                     /\ StartsWith(rest, <<47, 47>>)
             THEN With(From(rest, 3), LAMBDA after :
                  With(IndexByte(after, 47), LAMBDA slash :
                  With(IF slash = 0 THEN after
                                   ELSE SubSeq(after, 1, slash - 1), LAMBDA authority :
                  With(IF slash = 0 THEN <<>> ELSE From(after, slash), LAMBDA path :
                      parseAuthorityOK(authority) /\ unescapeOK(path, FALSE)))))
             ELSE unescapeOK(rest, FALSE))))))

\* url.ParseRequestURI(raw) returns no error.
ParseRequestURIOK(raw) == parseOK(raw, TRUE)

\* url.Parse(raw) returns no error: the fragment is cut off first.
ParseURLOK(raw0) ==
    With(raw0, LAMBDA raw :
    With(IndexByte(raw, 35), LAMBDA h :
        IF h = 0 THEN parseOK(raw, FALSE)
        ELSE parseOK(SubSeq(raw, 1, h - 1), FALSE) /\ unescapeOK(From(raw, h + 1), FALSE)))

----------------------------------------------------------------------------
(* The parser.  p is the Parser: p.toks are the tokens Scan has returned   *)
(* to it so far and p.n counts its calls of Scan; a call beyond p.toks     *)
(* reads ZeroToken, and ParserRun below uses of such a run only what the   *)
(* parser did before that call.  p.calls are its handler calls, each with  *)
(* the number of Scan calls made before it and the two tokens of the       *)
(* parser's window.  The parser has no case for a Comment or a Prompt      *)
(* token: it leaves the Comment and the Prompts of a Request and the       *)
(* Prompts of a File empty.                                                *)

TokAt(toks0, i0) ==
    With(toks0, LAMBDA toks :
    With(i0, LAMBDA i :
    IF i <= Len(toks) THEN toks[i] ELSE ZeroToken))

\* The Parser as New leaves it before its first advance.
NewParser(toks) ==
    [toks |-> toks, n |-> 0, current |-> ZeroToken, next |-> ZeroToken,
     hadErrors |-> FALSE, calls |-> <<>>]

\* Parser.advance
advance(p0) ==
    With(p0, LAMBDA p :
    [p EXCEPT !.current = p.next, !.next = TokAt(p.toks, p.n + 1), !.n = p.n + 1])

\* Parser.text
text(p0) ==
    With(p0, LAMBDA p :
    Slice(p.current.Start, p.current.End))

\* A faulty position that is anchored to the start of the current token
\* whatever the next token is.
positionFromStart(p0) ==
    With(p0, LAMBDA p :
    With({i \in 1..Len(src) : i - 1 < p.current.Start /\ src[i] = 10}, LAMBDA before :
    With(1 + Cardinality(before), LAMBDA line :
    With(
            IF before = {} THEN 0
            ELSE CHOOSE i \in before : \A j \in before : j <= i, LAMBDA lastNewLineOffset :
        Position(FileName, 0, line, 1 + p.current.Start - lastNewLineOffset,
                 1 + p.current.End - lastNewLineOffset)))))

\* Parser.position: line and columns of the current token, anchored to its
\* end when the next token is EOF.
position(p0) ==
    With(p0, LAMBDA p :
    With({i \in 1..Len(src) : i - 1 < p.current.Start /\ src[i] = 10}, LAMBDA before :
    With(1 + Cardinality(before), LAMBDA line :
    With(
            IF before = {} THEN 0
            ELSE CHOOSE i \in before : \A j \in before : j <= i, LAMBDA lastNewLineOffset :
    With(IF p.next.Kind = "EOF" THEN p.current.End ELSE p.current.Start, LAMBDA start :
        Position(FileName, 0, line, 1 + start - lastNewLineOffset,
                 1 + p.current.End - lastNewLineOffset))))))

\* A faulty error that sets hadErrors only when a handler is installed.
perrorNeedsHandler(p0, msg) ==
    With(p0, LAMBDA p :
    [p EXCEPT !.hadErrors = @ \/ hasHandler,
              !.calls = Append(@, [at |-> p.n, handled |-> hasHandler,
                                   current |-> p.current, next |-> p.next,
                                   call |-> Call("parser", position(p), msg, 0)])])

\* Parser.error (and errorf): every call is kept in p.calls, with whether
\* it went on to call the handler.
perror(p0, msg) ==
    With(p0, LAMBDA p :
    [p EXCEPT !.hadErrors = TRUE,
              !.calls = Append(@, [at |-> p.n, handled |-> hasHandler,
                                   current |-> p.current, next |-> p.next,
                                   call |-> Call("parser", position(p), msg, 0)])])

\* Parser.expect
expect(p0, kinds) ==
    With(p0, LAMBDA p :
    IF kinds = {} THEN p
    ELSE IF p.next.Kind \notin kinds
    THEN perror(p, IF Cardinality(kinds) = 1 THEN "expected %s, got %s"
                   ELSE "expected one of %v, got %s")
    ELSE advance(p))

\* Parser.parseDuration
parseDuration(p) ==
    With(advance(p), LAMBDA a :
    With(IF a.next.Kind = "Eq" THEN advance(a) ELSE a, LAMBDA b :
    With(expect(b, {"Text"}), LAMBDA c :
    With(ParseDuration(text(c)), LAMBDA d :
        [p |-> IF d.ok THEN c ELSE perror(c, "bad timeout value: %v"), value |-> d.d]))))

\* Parser.parseName
parseName(p) ==
    With(advance(p), LAMBDA a :
    With(IF a.next.Kind = "Eq" THEN advance(a) ELSE a, LAMBDA b :
    With(expect(b, {"Text"}), LAMBDA c :
        [p |-> c, value |-> text(c)])))

\* Parser.validateURL
validateURL(p0, raw0) ==
    With(p0, LAMBDA p :
    With(raw0, LAMBDA raw :
    IF Contains(raw, LitOpen)
    THEN IF ParseURLOK(raw) THEN p ELSE perror(p, "invalid URL: %v")
    ELSE IF ParseRequestURIOK(raw) THEN p ELSE perror(p, "invalid URL: %v")))

\* Parser.parseVar
parseVar(p) ==
    With(advance(p), LAMBDA a :
    With(expect(a, {"Eq"}), LAMBDA b :
    With(expect(b, {"URL", "Text"}), LAMBDA c :
    With(IF c.current.Kind = "URL" THEN validateURL(c, text(c)) ELSE c, LAMBDA d :
        [p |-> d, key |-> text(a), value |-> text(d)]))))

\* One directive of parseGlobals or parseRequestVars: the switch on
\* p.next.Kind applied to v, a File or a Request.  The two switches have the
\* same cases; only the message of the global default lists Name.
directive(p0, v0, global) ==
    With(p0, LAMBDA p :
    With(v0, LAMBDA v :
    With(p.next.Kind, LAMBDA kind :
        IF kind = "Timeout"
        THEN With(parseDuration(p), LAMBDA d :
                 [p |-> d.p, v |-> [v EXCEPT !.Timeout = d.value]])
        ELSE IF kind = "ConnectionTimeout"
        THEN With(parseDuration(p), LAMBDA d :
                 [p |-> d.p, v |-> [v EXCEPT !.ConnectionTimeout = d.value]])
        ELSE IF kind = "NoRedirect"
        THEN [p |-> advance(p), v |-> [v EXCEPT !.NoRedirect = TRUE]]
        ELSE IF kind = "Name"
        THEN With(parseName(p), LAMBDA d :
                 [p |-> d.p, v |-> [v EXCEPT !.Name = d.value]])
        ELSE IF kind = "Ident"
        THEN With(parseVar(p), LAMBDA d :
                 [p |-> d.p, v |-> [v EXCEPT !.Vars = MapSet(@, d.key, d.value)]])
        ELSE [p |-> perror(p, IF global
                              THEN "unexpected token %s, expected one of %s, %s, %s, %s or %s"
                              ELSE "unexpected token %s, expected one of %s, %s, %s or %s"),
              v |-> v])))

RECURSIVE directives(_, _, _)
\* The loop of parseGlobals and of parseRequestVars.
directives(p0, v0, global) ==
    With(p0, LAMBDA p :
    With(v0, LAMBDA v :
    IF p.current.Kind # "At" THEN [p |-> p, v |-> v]
    ELSE With(directive(p, v, global), LAMBDA d :
             directives(advance(d.p), d.v, global))))

\* Parser.parseGlobals
parseGlobals(p, file) ==
    With(directives(p, file, TRUE), LAMBDA r :
        [p |-> r.p, file |-> r.v])

\* Parser.parseRequestVars
parseRequestVars(p, request) ==
    With(directives(p, request, FALSE), LAMBDA r :
        [p |-> r.p, request |-> r.v])

RECURSIVE parseHeaders(_, _)
\* The header loop of parseRequest.
parseHeaders(p0, request0) ==
    With(p0, LAMBDA p :
    With(request0, LAMBDA request :
    IF p.next.Kind # "Header" THEN [p |-> p, request |-> request]
    ELSE With(advance(p), LAMBDA a :
         With(expect(a, {"Colon"}), LAMBDA b :
         With(expect(b, {"Text"}), LAMBDA c :
             parseHeaders(c, [request EXCEPT !.Headers = MapSet(@, text(a), text(c))]))))))

\* parseRequest from the body on: Body, '<' path or '<>' path, and the final
\* check that not both an inline body and a body file were given.  The body
\* is the text of the Body token as it stands.
parseBody(p0, request0) ==
    With(p0, LAMBDA p :
    With(request0, LAMBDA request :
    With(IF p.next.Kind = "Body" THEN advance(p) ELSE p, LAMBDA a :
    With(IF p.next.Kind = "Body"
              THEN [request EXCEPT !.Body = text(a), !.BodyNil = FALSE]
              ELSE request, LAMBDA r1 :
    With(IF a.next.Kind # "LeftAngle" THEN [p |-> a, request |-> r1]
              ELSE With(advance(a), LAMBDA l :
                       IF l.next.Kind = "RightAngle"
                       THEN With(expect(advance(l), {"Text"}), LAMBDA e :
                                [p |-> e, request |-> [r1 EXCEPT !.ResponseRef = text(e)]])
                       ELSE With(expect(l, {"Text"}), LAMBDA e :
                                [p |-> e, request |-> [r1 EXCEPT !.BodyFile = text(e)]])), LAMBDA b :
    With(IF b.p.next.Kind # "LeftAngle" THEN b
              ELSE With(expect(expect(advance(b.p), {"RightAngle"}), {"Text"}), LAMBDA e :
                       [p |-> e, request |-> [b.request EXCEPT !.ResponseRef = text(e)]]), LAMBDA c :
        IF ~c.request.BodyNil /\ c.request.BodyFile # <<>>
        THEN [p |-> perror(c.p, "cannot have both an inline body and an input body file"),
              request |-> ZeroRequest]
        ELSE c))))))

\* Parser.parseRequest
parseRequest(p0) ==
    With(p0, LAMBDA p :
    IF p.current.Kind # "Separator"
    THEN [p |-> perror(p, "expected %s, got %s"), request |-> ZeroRequest]
    ELSE With(IF p.next.Kind = "Text" THEN advance(p) ELSE p, LAMBDA a :
         With(IF p.next.Kind = "Text" THEN [ZeroRequest EXCEPT !.Name = text(a)]
                   ELSE ZeroRequest, LAMBDA r0 :
         With(parseRequestVars(advance(a), r0), LAMBDA v :
             IF ~IsMethod(v.p.current.Kind)
             THEN [p |-> perror(v.p, "request separators must be followed by either a name or a HTTP method, got %s"),
                   request |-> ZeroRequest]
             ELSE With([v.request EXCEPT !.Method = text(v.p)], LAMBDA r1 :
                  With(expect(v.p, {"URL"}), LAMBDA u :
                  With(validateURL(u, text(u)), LAMBDA w :
                  With([r1 EXCEPT !.URL = text(w)], LAMBDA r2 :
                  With(IF w.next.Kind = "HTTPVersion" THEN advance(w) ELSE w, LAMBDA h :
                  With(IF w.next.Kind = "HTTPVersion"
                            THEN [r2 EXCEPT !.HTTPVersion = text(h)]
                            ELSE r2, LAMBDA r3 :
                  With(parseHeaders(h, r3), LAMBDA hs :
                      parseBody(hs.p, hs.request))))))))))))

RECURSIVE parseRequestsBail(_, _)
\* A faulty loop of Parse that stops at the first request with an error.
parseRequestsBail(p0, file0) ==
    With(p0, LAMBDA p :
    With(file0, LAMBDA file :
    IF p.current.Kind = "EOF" \/ p.hadErrors THEN [p |-> p, file |-> file]
    ELSE With(parseRequest(p), LAMBDA r :
         With(IF r.request.Name = <<>>
              THEN [r.request EXCEPT
                        !.Name = RequestNumberName(1 + Len(file.Requests))]
              ELSE r.request, LAMBDA request :
             parseRequestsBail(advance(r.p),
                               [file EXCEPT !.Requests = Append(@, request)])))))

RECURSIVE parseRequestsToError(_, _)
\* A faulty loop of Parse that also ends, silently, at an Error token.
parseRequestsToError(p0, file0) ==
    With(p0, LAMBDA p :
    With(file0, LAMBDA file :
    IF p.current.Kind \in {"EOF", "Error"} THEN [p |-> p, file |-> file]
    ELSE With(parseRequest(p), LAMBDA r :
         With(IF r.request.Name = <<>>
              THEN [r.request EXCEPT
                        !.Name = RequestNumberName(1 + Len(file.Requests))]
              ELSE r.request, LAMBDA request :
             parseRequestsToError(advance(r.p),
                                  [file EXCEPT !.Requests = Append(@, request)])))))

RECURSIVE parseRequestsUnnumbered(_, _)
\* A faulty loop of Parse that leaves a request without a name unnamed.
parseRequestsUnnumbered(p0, file0) ==
    With(p0, LAMBDA p :
    With(file0, LAMBDA file :
    IF p.current.Kind = "EOF" THEN [p |-> p, file |-> file]
    ELSE With(parseRequest(p), LAMBDA r :
             parseRequestsUnnumbered(advance(r.p),
                           [file EXCEPT !.Requests = Append(@, r.request)]))))

RECURSIVE parseRequests(_, _)
\* The loop of Parse over the requests of the file.
parseRequests(p0, file0) ==
    With(p0, LAMBDA p :
    With(file0, LAMBDA file :
    IF p.current.Kind = "EOF" THEN [p |-> p, file |-> file]
    ELSE With(parseRequest(p), LAMBDA r :
         With(IF r.request.Name = <<>>
              THEN [r.request EXCEPT
                        !.Name = RequestNumberName(1 + Len(file.Requests))]
              ELSE r.request, LAMBDA request :
             parseRequests(advance(r.p),
                           [file EXCEPT !.Requests = Append(@, request)])))))

\* A faulty Parse that returns the File it has built along with ErrParse.
ParseKeepsFile(p) ==
    With(parseGlobals(p, [ZeroFile EXCEPT !.Name = FileName]), LAMBDA g :
    With(parseRequests(g.p, g.file), LAMBDA r :
        [p |-> r.p, built |-> r.file, file |-> r.file, err |-> r.p.hadErrors]))

\* A faulty Parse that returns ErrParse only when a handler was there to
\* hear of the errors.
ParseNeedsHandler(p) ==
    With(parseGlobals(p, [ZeroFile EXCEPT !.Name = FileName]), LAMBDA g :
    With(parseRequests(g.p, g.file), LAMBDA r :
        IF r.p.hadErrors /\ hasHandler
        THEN [p |-> r.p, built |-> r.file, file |-> ZeroFile, err |-> TRUE]
        ELSE [p |-> r.p, built |-> r.file, file |-> r.file, err |-> FALSE]))

\* Parser.Parse on the parser New returns: the final parser, the File it
\* built, the File it returns and whether it returns ErrParse (else nil).
Parse(p) ==
    With(parseGlobals(p, [ZeroFile EXCEPT !.Name = FileName]), LAMBDA g :
    With(parseRequests(g.p, g.file), LAMBDA r :
        IF r.p.hadErrors
        THEN [p |-> r.p, built |-> r.file, file |-> ZeroFile, err |-> TRUE]
        ELSE [p |-> r.p, built |-> r.file, file |-> r.file, err |-> FALSE]))

\* parser.New: the two calls of advance that set current and next.
New(toks) == advance(advance(NewParser(toks)))

----------------------------------------------------------------------------
(* The parser as the consumer of the channel *)

NoResult == [done |-> FALSE, file |-> ZeroFile, err |-> FALSE]

\* The tokens Scan has returned to the parser.
Toks == [i \in 1..Len(got) |-> got[i].tok]

\* Parse run on the tokens received so far.
Parsed == Parse(New(Toks))

\* The parser is at a call of Scan whose token it has not received.
NeedsToken == Parsed.p.n > Len(got)

\* The handler calls the parser has made or is about to make with the tokens
\* it has received, and how many of them it has made.
ParserCalls ==
    SelectSeq(Parsed.p.calls, LAMBDA c : c.handled /\ c.at <= Len(got))

ParserCalled == Len(SelectSeq(sink, LAMBDA c : c.by = "parser"))

\* p.advance() in parser.New, twice; New then returns the Parser.
NewAdvance ==
    /\ consumer = "parser"
    /\ cstate = "new"
    /\ CanReceive
    /\ got' = Append(got, Received)
    /\ tokens' = AfterReceive
    /\ cstate' = IF Len(got) = 1 THEN "ready" ELSE "new"
    /\ UNCHANGED <<src, hasHandler, consumer, s, state, pending, closed, sink, result,
                   resolved, console, first>>

\* The caller calls Parse.
CallParse ==
    /\ consumer = "parser"
    /\ cstate = "ready"
    /\ cstate' = "parsing"
    /\ UNCHANGED <<src, hasHandler, consumer, s, state, pending, tokens, closed, sink,
                   got, result, resolved, console, first>>

\* p.handler(p.position(), msg) in Parser.error
ParserHandler ==
    /\ consumer = "parser"
    /\ cstate = "parsing"
    /\ ~InHandler("parser")
    /\ ParserCalled < Len(ParserCalls)
    /\ sink' = Append(sink, ParserCalls[ParserCalled + 1].call)
    /\ console' = Invoke("parser", ParserCalls[ParserCalled + 1].call)
    /\ UNCHANGED <<src, hasHandler, consumer, s, state, pending, tokens, closed, got,
                   cstate, result, resolved, first>>

\* p.next = p.scanner.Scan() in Parser.advance, during Parse
ParserAdvance ==
    /\ consumer = "parser"
    /\ cstate = "parsing"
    /\ ~InHandler("parser")
    /\ ParserCalled = Len(ParserCalls)
    /\ NeedsToken
    /\ CanReceive
    /\ got' = Append(got, Received)
    /\ tokens' = AfterReceive
    /\ UNCHANGED <<src, hasHandler, consumer, s, state, pending, closed, sink, cstate,
                   result, resolved, console, first>>

\* Parse returns.
ParserReturn ==
    /\ consumer = "parser"
    /\ cstate = "parsing"
    /\ ~InHandler("parser")
    /\ ParserCalled = Len(ParserCalls)
    /\ ~NeedsToken
    /\ result' = [done |-> TRUE, file |-> Parsed.file, err |-> Parsed.err]
    /\ cstate' = "returned"
    /\ UNCHANGED <<src, hasHandler, consumer, s, state, pending, tokens, closed, sink,
                   got, resolved, console, first>>

ParserNext == NewAdvance \/ CallParse \/ ParserHandler \/ ParserAdvance \/ ParserReturn

----------------------------------------------------------------------------
(* text/template, as the resolver uses it:                                 *)
(* template.New(name).Option("missingkey=error").Parse(value) and          *)
(* tmp.Execute(buf, scope).  The lexer is modelled whole.  Of the parser   *)
(* and of the evaluator the part modelled is text, comments, trim markers, *)
(* commands whose operands are field chains, the dot, strings, integers,   *)
(* booleans and nil, the function print, and if / else / end.  A template  *)
(* that the package may accept through anything else (pipes, variables,    *)
(* parentheses, range, with, define, the other predefined functions,       *)
(* constants that need conversion) has the outcome "unmodelled".           *)

LitClose == <<125, 125>>                              \* "}}"

LitLeftComment == <<47, 42>>                          \* "/*"

LitRightComment == <<42, 47>>                         \* "*/"

LitGlobal == <<71, 108, 111, 98, 97, 108>>

LitLocal  == <<76, 111, 99, 97, 108>>

LitPrint == <<112, 114, 105, 110, 116>>

LitTrue == <<116, 114, 117, 101>>

\* unicode.IsLetter is tabulated up to U+017F; what the lexer does with a
\* rune beyond it is not modelled.
MaxLetter == 383

RECURSIVE Less(_, _)
\* a < b for strings: the order of slices.Sorted and of the keys of a map
\* that fmt prints.
Less(a, b) ==
    IF b = <<>> THEN FALSE
    ELSE IF a = <<>> THEN TRUE
    ELSE IF Head(a) # Head(b) THEN Head(a) < Head(b)
    ELSE Less(Tail(a), Tail(b))

RECURSIVE Sorted(_)
\* slices.Sorted(maps.Keys(m)) for the set of the keys of m.
Sorted(keys) ==
    IF keys = {} THEN <<>>
    ELSE With(CHOOSE k \in keys : \A j \in keys : j = k \/ Less(k, j), LAMBDA k :
             <<k>> \o Sorted(keys \ {k}))

\* isSpace of the lexer: space, tab, carriage return, newline.
isSpace(r) == r \in {32, 9, 13, 10}

\* unicode.IsLetter(r) for r up to MaxLetter.
IsLetter(r) ==
    \/ isAlpha(r)
    \/ r \in {170, 181, 186}
    \/ r >= 192 /\ r <= 214
    \/ r >= 216 /\ r <= 246
    \/ r >= 248 /\ r <= MaxLetter

\* isAlphaNumeric of the lexer: '_', unicode.IsLetter or unicode.IsDigit.
isAlphaNumericRune(r) == r = 95 \/ IsLetter(r) \/ isDigit(r)

\* A rune of which the model does not know whether it is a letter or a digit.
Beyond(r) == r > MaxLetter /\ r # RuneError

\* The byte at 1-based index i of u, eof when there is none.
At(u0, i0) ==
    With(u0, LAMBDA u :
    With(i0, LAMBDA i :
    IF i >= 1 /\ i <= Len(u) THEN u[i] ELSE eof))

\* utf8.DecodeRuneInString(u[i:]), which lexer.next calls; at the end of the
\* input the rune is eof and nothing is consumed.
DecodeRuneInString(u0, i0) ==
    With(<<At(u0, i0), At(u0, i0 + 1), At(u0, i0 + 2), At(u0, i0 + 3)>>, LAMBDA b :
        IF b[1] = eof THEN [char |-> eof, width |-> 0]
        ELSE IF b[1] < 128 THEN [char |-> b[1], width |-> 1]
        ELSE IF b[1] >= 194 /\ b[1] <= 223 /\ IsCont(b[2])
        THEN [char |-> (b[1] - 192) * 64 + (b[2] - 128), width |-> 2]
        ELSE IF /\ b[1] >= 224 /\ b[1] <= 239
                /\ b[2] >= (IF b[1] = 224 THEN 160 ELSE 128)
                /\ b[2] <= (IF b[1] = 237 THEN 159 ELSE 191)
                /\ IsCont(b[3])
        THEN [char  |-> (b[1] - 224) * 4096 + (b[2] - 128) * 64 + (b[3] - 128),
              width |-> 3]
        ELSE IF /\ b[1] >= 240 /\ b[1] <= 244
                /\ b[2] >= (IF b[1] = 240 THEN 144 ELSE 128)
                /\ b[2] <= (IF b[1] = 244 THEN 143 ELSE 191)
                /\ IsCont(b[3])
                /\ IsCont(b[4])
        THEN [char  |-> (b[1] - 240) * 262144 + (b[2] - 128) * 4096
                            + (b[3] - 128) * 64 + (b[4] - 128),
              width |-> 4]
        ELSE [char |-> RuneError, width |-> 1])

\* lexer.peek at position i
Peek(u, i) == DecodeRuneInString(u, i).char

\* An item of the lexer and the position after it.
Item(typ, val, after) == [typ |-> typ, val |-> val, next |-> after]

\* lexer.errorf
LexError == Item("error", <<>>, 0)

\* The lexer has met a rune beyond MaxLetter where it asks for a letter.
LexUnknown == Item("unknown", <<>>, 0)

\* hasLeftTrimMarker(u[i:])
hasLeftTrimMarker(u, i) == At(u, i) = 45 /\ isSpace(At(u, i + 1))

\* hasRightTrimMarker(u[i:])
hasRightTrimMarker(u, i) == isSpace(At(u, i)) /\ At(u, i + 1) = 45

\* lexer.atRightDelim at position i: the delimiter, with or without its trim
\* marker.
atRightDelim(u0, i0) ==
    With(u0, LAMBDA u :
    With(i0, LAMBDA i :
    With(hasRightTrimMarker(u, i) /\ StartsWith(From(u, i + 2), LitClose), LAMBDA trim :
        [delim |-> trim \/ StartsWith(From(u, i), LitClose), trimSpaces |-> trim])))

\* leftTrimLength: the position of the first byte at or after i that is no
\* space.
RECURSIVE skipSpaces(_, _)
skipSpaces(u, i) == IF isSpace(At(u, i)) THEN skipSpaces(u, i + 1) ELSE i

\* rightTrimLength: the position of the last byte of u[i..e] that is no
\* space, i - 1 when there is none.
RECURSIVE trimRight(_, _, _)
trimRight(u, i, e) == IF e >= i /\ isSpace(At(u, e)) THEN trimRight(u, i, e - 1) ELSE e

\* lexRightDelim at position i
lexRightDelim(u0, i0) ==
    With(u0, LAMBDA u :
    With(i0, LAMBDA i :
        IF atRightDelim(u, i).trimSpaces
        THEN Item("rightDelim", LitClose, skipSpaces(u, i + 4))
        ELSE Item("rightDelim", LitClose, i + 2)))

\* lexer.atTerminator at position i
atTerminator(u0, i0) ==
    With(u0, LAMBDA u :
    With(i0, LAMBDA i :
    With(Peek(u, i), LAMBDA r :
        \/ isSpace(r)
        \/ r \in {eof, 46, 44, 124, 58, 41, 40}
        \/ StartsWith(From(u, i), LitClose))))

\* The end of the run of alphanumeric runes that starts at position i.
RECURSIVE wordEnd(_, _)
wordEnd(u0, i0) ==
    With(u0, LAMBDA u :
    With(i0, LAMBDA i :
    With(DecodeRuneInString(u, i), LAMBDA d :
        IF isAlphaNumericRune(d.char) THEN wordEnd(u, i + d.width) ELSE i)))

\* lexSpace at position i: the run of spaces, less the last one when a
\* trim-marked delimiter follows it.
lexSpace(u0, i0) ==
    With(u0, LAMBDA u :
    With(i0, LAMBDA i :
    With(skipSpaces(u, i), LAMBDA e :
        IF atRightDelim(u, e - 1).trimSpaces
        THEN IF e - i = 1 THEN lexRightDelim(u, e - 1)
             ELSE Item("space", SubSeq(u, i, e - 2), e - 1)
        ELSE Item("space", SubSeq(u, i, e - 1), e))))

\* lexField and lexVariable after the '.' or '$' at position i - 1
lexFieldOrVariable(u0, i0, typ) ==
    With(u0, LAMBDA u :
    With(i0, LAMBDA i :
    With(wordEnd(u, i), LAMBDA e :
        IF atTerminator(u, i)
        THEN Item(IF typ = "variable" THEN typ ELSE "dot", SubSeq(u, i - 1, i - 1), i)
        ELSE IF Beyond(Peek(u, e)) THEN LexUnknown
        ELSE IF ~atTerminator(u, e) THEN LexError
        ELSE Item(typ, SubSeq(u, i - 1, e - 1), e))))

\* The keywords of the lexer, and the constants true and false.
key(word) ==
    CASE word = <<98, 108, 111, 99, 107>> -> "block"
      [] word = <<98, 114, 101, 97, 107>> -> "break"
      [] word = <<99, 111, 110, 116, 105, 110, 117, 101>> -> "continue"
      [] word = <<100, 101, 102, 105, 110, 101>> -> "define"
      [] word = <<101, 108, 115, 101>> -> "else"
      [] word = <<101, 110, 100>> -> "end"
      [] word = <<105, 102>> -> "if"
      [] word = <<114, 97, 110, 103, 101>> -> "range"
      [] word = <<110, 105, 108>> -> "nil"
      [] word = <<116, 101, 109, 112, 108, 97, 116, 101>> -> "template"
      [] word = <<119, 105, 116, 104>> -> "with"
      [] word = <<116, 114, 117, 101>> -> "bool"
      [] word = <<102, 97, 108, 115, 101>> -> "bool"
      [] OTHER -> "identifier"

\* lexIdentifier at position i
lexIdentifier(u0, i0) ==
    With(u0, LAMBDA u :
    With(i0, LAMBDA i :
    With(wordEnd(u, i), LAMBDA e :
        IF Beyond(Peek(u, e)) THEN LexUnknown
        ELSE IF ~atTerminator(u, e) THEN LexError
        ELSE Item(key(SubSeq(u, i, e - 1)), SubSeq(u, i, e - 1), e))))

\* The end of a quoted string whose text starts at position i: a backslash
\* takes the next rune with it, and the input or the line may not end first.
RECURSIVE quoteEnd(_, _, _)
quoteEnd(u0, i0, quote) ==
    With(u0, LAMBDA u :
    With(i0, LAMBDA i :
    With(DecodeRuneInString(u, i), LAMBDA d :
        IF d.char = eof \/ d.char = 10 THEN 0
        ELSE IF d.char = quote THEN i + 1
        ELSE IF d.char # 92 THEN quoteEnd(u, i + d.width, quote)
        ELSE With(DecodeRuneInString(u, i + 1), LAMBDA esc :
                 IF esc.char = eof \/ esc.char = 10 THEN 0
                 ELSE quoteEnd(u, i + 1 + esc.width, quote)))))

\* lexQuote and lexChar for the quote at position i
lexQuote(u0, i0, typ) ==
    With(u0, LAMBDA u :
    With(i0, LAMBDA i :
    With(quoteEnd(u, i + 1, u[i]), LAMBDA e :
        IF e = 0 THEN LexError ELSE Item(typ, SubSeq(u, i, e - 1), e))))

\* lexRawQuote for the back quote at position i
lexRawQuote(u0, i0) ==
    With(u0, LAMBDA u :
    With(i0, LAMBDA i :
    With(IndexByte(From(u, i + 1), 96), LAMBDA x :
        IF x = 0 THEN LexError ELSE Item("rawString", SubSeq(u, i, i + x), i + x + 1))))

\* lexer.acceptRun
RECURSIVE acceptRun(_, _, _)
acceptRun(u, i, valid) == IF At(u, i) \in valid THEN acceptRun(u, i + 1, valid) ELSE i

DecimalDigits == (48..57) \cup {95}                   \* "0123456789_"

HexDigits == DecimalDigits \cup (97..102) \cup (65..70)

OctalDigits == (48..55) \cup {95}

BinaryDigits == {48, 49, 95}

\* The digits that scanNumber accepts after the sign at position a - 1, and
\* the position where they start: after a prefix 0x, 0o or 0b those of its
\* base, otherwise the decimal ones.
numberBase(u0, a0) ==
    With(u0, LAMBDA u :
    With(a0, LAMBDA a :
        IF At(u, a) # 48 THEN [digits |-> DecimalDigits, start |-> a]
        ELSE IF At(u, a + 1) \in {120, 88} THEN [digits |-> HexDigits, start |-> a + 2]
        ELSE IF At(u, a + 1) \in {111, 79} THEN [digits |-> OctalDigits, start |-> a + 2]
        ELSE IF At(u, a + 1) \in {98, 66} THEN [digits |-> BinaryDigits, start |-> a + 2]
        ELSE [digits |-> DecimalDigits, start |-> a + 1]))

\* The exponent of scanNumber at position m, when the letter there is one of
\* the two given.
exponentEnd(u0, m0, letters) ==
    With(u0, LAMBDA u :
    With(m0, LAMBDA m :
        IF At(u, m) \notin letters THEN m
        ELSE acceptRun(u, IF At(u, m + 1) \in {43, 45} THEN m + 2 ELSE m + 1,
                       DecimalDigits)))

\* The fraction of scanNumber at position m
fractionEnd(u0, m0, digits) ==
    With(u0, LAMBDA u :
    With(m0, LAMBDA m :
        IF At(u, m) = 46 THEN acceptRun(u, m + 1, digits) ELSE m))

\* The position where scanNumber stops when it starts at position i.
numberEnd(u0, i0) ==
    With(u0, LAMBDA u :
    With(numberBase(u, IF At(u, i0) \in {43, 45} THEN i0 + 1 ELSE i0), LAMBDA b :
    With(fractionEnd(u, acceptRun(u, b.start, b.digits), b.digits), LAMBDA m :
    With(IF b.digits = DecimalDigits THEN exponentEnd(u, m, {101, 69})
         ELSE IF b.digits = HexDigits THEN exponentEnd(u, m, {112, 80})
         ELSE m, LAMBDA x :
        IF At(u, x) = 105 THEN x + 1 ELSE x))))

\* lexNumber at position i: scanNumber fails when an alphanumeric rune
\* follows the number, and a sign after the number makes it a complex
\* constant whose second part has to end in 'i'.
lexNumber(u0, i0) ==
    With(u0, LAMBDA u :
    With(i0, LAMBDA i :
    With(numberEnd(u, i), LAMBDA e :
        IF Beyond(Peek(u, e)) THEN LexUnknown
        ELSE IF isAlphaNumericRune(Peek(u, e)) THEN LexError
        ELSE IF At(u, e) \notin {43, 45} THEN Item("number", SubSeq(u, i, e - 1), e)
        ELSE With(numberEnd(u, e), LAMBDA f :
                 IF Beyond(Peek(u, f)) THEN LexUnknown
                 ELSE IF isAlphaNumericRune(Peek(u, f)) \/ u[f - 1] # 105 THEN LexError
                 ELSE Item("complex", SubSeq(u, i, f - 1), f)))))

\* lexInsideAction at position i for the rune r there, when no right
\* delimiter is at that position.
lexRune(u0, i0, r0) ==
    With(u0, LAMBDA u :
    With(i0, LAMBDA i :
    With(r0, LAMBDA r :
        IF r = eof THEN LexError
        ELSE IF isSpace(r) THEN lexSpace(u, i)
        ELSE IF r = 61 THEN Item("assign", <<r>>, i + 1)
        ELSE IF r = 58
        THEN IF At(u, i + 1) = 61 THEN Item("declare", <<58, 61>>, i + 2) ELSE LexError
        ELSE IF r = 124 THEN Item("pipe", <<r>>, i + 1)
        ELSE IF r = 34 THEN lexQuote(u, i, "string")
        ELSE IF r = 96 THEN lexRawQuote(u, i)
        ELSE IF r = 36 THEN lexFieldOrVariable(u, i + 1, "variable")
        ELSE IF r = 39 THEN lexQuote(u, i, "charConstant")
        ELSE IF r = 46 /\ i + 1 <= Len(u) /\ ~isDigit(u[i + 1])
        THEN lexFieldOrVariable(u, i + 1, "field")
        ELSE IF r \in {46, 43, 45} \/ isDigit(r) THEN lexNumber(u, i)
        ELSE IF Beyond(r) THEN LexUnknown
        ELSE IF isAlphaNumericRune(r) THEN lexIdentifier(u, i)
        ELSE IF r = 40 THEN Item("leftParen", <<r>>, i + 1)
        ELSE IF r = 41 THEN Item("rightParen", <<r>>, i + 1)
        ELSE IF r >= 33 /\ r <= 126 THEN Item("char", <<r>>, i + 1)
        ELSE LexError)))

\* lexInsideAction at position i with parenDepth parentheses open
lexInsideAction(u0, i0, parenDepth) ==
    With(u0, LAMBDA u :
    With(i0, LAMBDA i :
        IF atRightDelim(u, i).delim
        THEN IF parenDepth = 0 THEN lexRightDelim(u, i) ELSE LexError
        ELSE With(lexRune(u, i, Peek(u, i)), LAMBDA it :
                 IF it.typ = "rightParen" /\ parenDepth = 0 THEN LexError ELSE it)))

\* The outcome of lexing an action or a comment: the items of the action
\* without the right delimiter, and the position after it.
Lexed(err, items, after) == [err |-> err, items |-> items, next |-> after]

\* The items of the action that starts at position i.
RECURSIVE lexAction(_, _, _)
lexAction(u0, i0, parenDepth0) ==
    With(u0, LAMBDA u :
    With(parenDepth0, LAMBDA parenDepth :
    With(lexInsideAction(u, i0, parenDepth), LAMBDA it :
        IF it.typ = "error" THEN Lexed("parse", <<>>, 0)
        ELSE IF it.typ = "unknown" THEN Lexed("unmodelled", <<>>, 0)
        ELSE IF it.typ = "rightDelim" THEN Lexed("", <<>>, it.next)
        ELSE With(lexAction(u, it.next,
                            IF it.typ = "leftParen" THEN parenDepth + 1
                            ELSE IF it.typ = "rightParen" THEN parenDepth - 1
                            ELSE parenDepth), LAMBDA rest :
                 IF rest.err # "" THEN rest
                 ELSE Lexed("", <<[typ |-> it.typ, val |-> it.val]>> \o rest.items,
                            rest.next)))))

\* lexComment for the comment that starts at position c: it has to be closed
\* and the right delimiter has to follow it directly.
lexComment(u0, c0) ==
    With(u0, LAMBDA u :
    With(c0, LAMBDA c :
    With(Index(From(u, c + 2), LitRightComment), LAMBDA x :
        IF x = 0 \/ ~atRightDelim(u, c + x + 3).delim THEN Lexed("parse", <<>>, 0)
        ELSE Lexed("", <<>>, lexRightDelim(u, c + x + 3).next))))

\* A piece of a template: text, or an action with its items.
TextPiece(val) == [typ |-> "text", val |-> val, items |-> <<>>]

ActionPiece(items) == [typ |-> "action", val |-> <<>>, items |-> items]

\* lexLeftDelim for the left delimiter at position open: a comment, which
\* leaves no piece, or an action.
lexLeftDelim(u0, open0) ==
    With(u0, LAMBDA u :
    With(IF hasLeftTrimMarker(u, open0 + 2) THEN open0 + 4 ELSE open0 + 2, LAMBDA after :
        IF StartsWith(From(u, after), LitLeftComment)
        THEN With(lexComment(u, after), LAMBDA c :
                 [err |-> c.err, pieces |-> <<>>, next |-> c.next])
        ELSE With(lexAction(u, after, 0), LAMBDA a :
                 [err |-> a.err, pieces |-> <<ActionPiece(a.items)>>, next |-> a.next])))

\* The text from position i up to the left delimiter at position open,
\* without its trailing spaces when the delimiter has a trim marker; no
\* piece when nothing is left.
textBefore(u0, i0, open0) ==
    With(u0, LAMBDA u :
    With(i0, LAMBDA i :
    With(open0, LAMBDA open :
    With(IF hasLeftTrimMarker(u, open + 2) THEN trimRight(u, i, open - 1)
         ELSE open - 1, LAMBDA e :
        IF e < i THEN <<>> ELSE <<TextPiece(SubSeq(u, i, e))>>))))

\* lexText from position i on: the pieces of the template.
RECURSIVE lexText(_, _)
lexText(u0, i0) ==
    With(u0, LAMBDA u :
    With(i0, LAMBDA i :
    With(Index(From(u, i), LitOpen), LAMBDA x :
        IF x = 0
        THEN [err    |-> "",
              pieces |-> IF i <= Len(u) THEN <<TextPiece(From(u, i))>> ELSE <<>>]
        ELSE With(lexLeftDelim(u, i + x - 1), LAMBDA a :
                 IF a.err # "" THEN [err |-> a.err, pieces |-> <<>>]
                 ELSE With(lexText(u, a.next), LAMBDA rest :
                          IF rest.err # "" THEN rest
                          ELSE [err    |-> "",
                                pieces |-> textBefore(u, i, i + x - 1) \o a.pieces
                                               \o rest.pieces])))))

\* The predefined functions of text/template.
builtins ==
    { <<97, 110, 100>>, <<99, 97, 108, 108>>, <<104, 116, 109, 108>>, <<105, 110, 100, 101, 120>>, <<115, 108, 105, 99, 101>>, <<106, 115>>, <<108, 101, 110>>,
      <<110, 111, 116>>, <<111, 114>>, <<112, 114, 105, 110, 116>>, <<112, 114, 105, 110, 116, 102>>, <<112, 114, 105, 110, 116, 108, 110>>, <<117, 114, 108, 113, 117, 101, 114, 121>>,
      <<101, 113>>, <<103, 101>>, <<103, 116>>, <<108, 101>>, <<108, 116>>, <<110, 101>> }

\* The items with which Tree.pipeline starts a command.
OperandItems ==
    { "bool", "charConstant", "complex", "dot", "field", "identifier", "number",
      "nil", "rawString", "string" }

\* The items whose part in the grammar is not modelled.
UnmodelledItems ==
    { "variable", "pipe", "leftParen", "rightParen", "assign", "declare", "char",
      "range", "with", "define", "template", "block", "break", "continue" }

\* An operand of a command.
Operand(t, v, chain) == [t |-> t, v |-> v, chain |-> chain]

\* A decimal integer written without sign, separators or leading zeros,
\* which NumberNode keeps as the int that fmt prints the same way.
simpleNumber(val0) ==
    With(val0, LAMBDA val :
        /\ Len(val) <= 18
        /\ \A i \in 1..Len(val) : isDigit(val[i])
        /\ val[1] = 48 => Len(val) = 1)

\* An interpreted string that strconv.Unquote returns as it stands between
\* its quotes: no escapes and nothing but ASCII.
simpleString(val0) ==
    With(val0, LAMBDA val :
        \A i \in 1..Len(val) : val[i] # 92 /\ val[i] < 128)

\* strconv.Unquote of a raw string: the text between the back quotes
\* without its carriage returns.
RECURSIVE dropCR(_)
dropCR(u) ==
    IF u = <<>> THEN <<>>
    ELSE (IF Head(u) = 13 THEN <<>> ELSE <<Head(u)>>) \o dropCR(Tail(u))

\* Tree.term for an item with which an operand may start; "other" is a
\* constant that the model does not convert.
term(item0) ==
    With(item0, LAMBDA item :
        IF item.typ = "identifier"
        THEN Operand(IF item.val = LitPrint THEN "print" ELSE "function", item.val, <<>>)
        ELSE IF item.typ = "field" THEN Operand("field", <<>>, <<Tail(item.val)>>)
        ELSE IF item.typ \in {"dot", "nil", "bool"} THEN Operand(item.typ, item.val, <<>>)
        ELSE IF item.typ = "number" /\ simpleNumber(item.val)
        THEN Operand("number", item.val, <<>>)
        ELSE IF item.typ = "string" /\ simpleString(item.val)
        THEN Operand("string", SubSeq(item.val, 2, Len(item.val) - 1), <<>>)
        ELSE IF item.typ = "rawString"
        THEN Operand("string", dropCR(SubSeq(item.val, 2, Len(item.val) - 1)), <<>>)
        ELSE Operand("other", item.val, <<>>))

\* Tree.nextNonSpace: the items without the spaces they start with.
RECURSIVE skipSpace(_)
skipSpace(items) ==
    IF items # <<>> /\ Head(items).typ = "space" THEN skipSpace(Tail(items)) ELSE items

\* The names of the field items with which the items start.
RECURSIVE fieldNames(_)
fieldNames(items) ==
    IF items # <<>> /\ Head(items).typ = "field"
    THEN <<Tail(Head(items).val)>> \o fieldNames(Tail(items))
    ELSE <<>>

\* newField for a field item and the field items that follow it directly:
\* the chain of their names.
fieldNode(items) == Operand("field", <<>>, fieldNames(items))

\* Tree.operand for the items of an operand, which start with one of
\* OperandItems: the term and the fields that follow it directly.  Fields
\* extend a field, make a chain of a function, and are an error after a
\* constant, the dot or nil.
operand(items0) ==
    With(items0, LAMBDA items :
    With(term(Head(items)), LAMBDA node :
    With(Len(fieldNames(Tail(items))), LAMBDA n :
        IF n = 0 THEN [ok |-> TRUE, node |-> node, used |-> 1]
        ELSE IF node.t = "field" THEN [ok |-> TRUE, node |-> fieldNode(items), used |-> n + 1]
        ELSE IF node.t \in {"print", "function"}
        THEN [ok   |-> TRUE,
              node |-> Operand("chain", node.v, fieldNames(Tail(items))),
              used |-> n + 1]
        ELSE [ok |-> FALSE, node |-> node, used |-> 0])))

\* Tree.command after args: operands until the items of the action end, a
\* space between every two of them; a command has an operand at least.
RECURSIVE command(_, _)
command(items0, args0) ==
    With(args0, LAMBDA args :
    With(skipSpace(items0), LAMBDA items :
        IF items = <<>> THEN [ok |-> args # <<>>, args |-> args]
        ELSE IF Head(items).typ \notin OperandItems THEN [ok |-> FALSE, args |-> <<>>]
        ELSE With(operand(items), LAMBDA o :
                 IF ~o.ok THEN [ok |-> FALSE, args |-> <<>>]
                 ELSE IF /\ o.used < Len(items)
                         /\ items[o.used + 1].typ # "space"
                 THEN [ok |-> FALSE, args |-> <<>>]
                 ELSE command(SubSeq(items, o.used + 1, Len(items)),
                              Append(args, o.node)))))

\* Tree.pipeline up to the right delimiter: one command.
pipeline(items) == command(items, <<>>)

\* Tree.action for the items of an action: the control it is, or a command.
action(items0) ==
    With(skipSpace(items0), LAMBDA items :
        IF items = <<>> THEN [kind |-> "error", args |-> <<>>]
        ELSE With(skipSpace(Tail(items)), LAMBDA rest :
        With(IF Head(items).typ = "if" THEN pipeline(rest)
             ELSE IF Head(items).typ = "else" /\ rest # <<>> /\ Head(rest).typ = "if"
             THEN pipeline(Tail(rest))
             ELSE pipeline(items), LAMBDA pipe :
            IF Head(items).typ = "end"
            THEN [kind |-> IF rest = <<>> THEN "end" ELSE "error", args |-> <<>>]
            ELSE IF Head(items).typ = "else" /\ rest = <<>>
            THEN [kind |-> "else", args |-> <<>>]
            ELSE IF ~pipe.ok THEN [kind |-> "error", args |-> <<>>]
            ELSE IF Head(items).typ = "if" THEN [kind |-> "if", args |-> pipe.args]
            ELSE IF Head(items).typ = "else" THEN [kind |-> "else if", args |-> pipe.args]
            ELSE [kind |-> "command", args |-> pipe.args])))

\* The nodes of a template.
TextNode(val) ==
    [t |-> "text", text |-> val, pipe |-> <<>>, list |-> <<>>, elseList |-> <<>>]

ActionNode(pipe) ==
    [t |-> "action", text |-> <<>>, pipe |-> pipe, list |-> <<>>, elseList |-> <<>>]

IfNode(pipe, list, elseList) ==
    [t |-> "if", text |-> <<>>, pipe |-> pipe, list |-> list, elseList |-> elseList]

\* The outcome of Tree.itemList: the nodes, the control that ended the list
\* ("eof" at the end of the template), its pipeline when that is an else if,
\* and the piece after it.
Listed(ok, nodes, end, args, after) ==
    [ok |-> ok, nodes |-> nodes, end |-> end, args |-> args, next |-> after]

NotListed == Listed(FALSE, <<>>, "", <<>>, 0)

RECURSIVE itemList(_, _, _)
RECURSIVE parseControl(_, _, _)

\* Tree.itemList from piece k on; nested says that the list is the body of
\* an if, which an end or an else has to close, while at the top level the
\* template ends the list and an end or an else is an error.
itemList(pieces0, k0, nested0) ==
    With(pieces0, LAMBDA pieces :
    With(k0, LAMBDA k :
    With(nested0, LAMBDA nested :
        IF k > Len(pieces) THEN Listed(~nested, <<>>, "eof", <<>>, k)
        ELSE IF pieces[k].typ = "text"
        THEN With(itemList(pieces, k + 1, nested), LAMBDA rest :
                 [rest EXCEPT !.nodes = <<TextNode(pieces[k].val)>> \o @])
        ELSE With(action(pieces[k].items), LAMBDA a :
                 IF a.kind = "error" THEN NotListed
                 ELSE IF a.kind \in {"end", "else", "else if"}
                 THEN Listed(nested, <<>>, a.kind, a.args, k + 1)
                 ELSE IF a.kind = "command"
                 THEN With(itemList(pieces, k + 1, nested), LAMBDA rest :
                          [rest EXCEPT !.nodes = <<ActionNode(a.args)>> \o @])
                 ELSE With(parseControl(pieces, k + 1, a.args), LAMBDA c :
                          IF ~c.ok THEN NotListed
                          ELSE With(itemList(pieces, c.next, nested), LAMBDA rest :
                                   [rest EXCEPT !.nodes = c.nodes \o @]))))))

\* Tree.parseControl for an if with the given pipeline whose body starts at
\* piece k: the body, then end, or else and a list that end closes, or an
\* else if, which is an if in the else list and shares the end.
parseControl(pieces0, k0, pipe0) ==
    With(pieces0, LAMBDA pieces :
    With(pipe0, LAMBDA pipe :
    With(itemList(pieces, k0, TRUE), LAMBDA body :
        IF ~body.ok THEN NotListed
        ELSE IF body.end = "end"
        THEN Listed(TRUE, <<IfNode(pipe, body.nodes, <<>>)>>, "", <<>>, body.next)
        ELSE With(IF body.end = "else" THEN itemList(pieces, body.next, TRUE)
                  ELSE parseControl(pieces, body.next, body.args), LAMBDA other :
                 IF ~other.ok \/ (body.end = "else" /\ other.end # "end") THEN NotListed
                 ELSE Listed(TRUE, <<IfNode(pipe, body.nodes, other.nodes)>>, "", <<>>,
                             other.next)))))

\* The items of the actions of the pieces.
RECURSIVE allItems(_)
allItems(pieces) ==
    IF pieces = <<>> THEN <<>> ELSE Head(pieces).items \o allItems(Tail(pieces))

Has(items, typs) == \E i \in 1..Len(items) : items[i].typ \in typs

\* What stops Parse whatever the grammar makes of the items: a function
\* that is not defined, a break or continue in a template without a range,
\* a character in a template without a variable.
badItems(items0) ==
    With(items0, LAMBDA items :
        \/ \E i \in 1..Len(items) :
               items[i].typ = "identifier" /\ items[i].val \notin builtins
        \/ Has(items, {"break", "continue"}) /\ ~Has(items, {"range"})
        \/ Has(items, {"char"}) /\ ~Has(items, {"variable"}))

\* Some constant of the items is one that the model does not convert.
otherItems(items0) ==
    With(items0, LAMBDA items :
        \E i \in 1..Len(items) :
            items[i].typ \in OperandItems /\ term(items[i]).t = "other")

\* The outcome of Parse.
Tree(err, nodes) == [err |-> err, nodes |-> nodes]

\* Parse of the lexed template.
parseLexed(lexed0) ==
    With(lexed0, LAMBDA lexed :
    With(allItems(lexed.pieces), LAMBDA items :
        IF lexed.err # "" THEN Tree(lexed.err, <<>>)
        ELSE IF badItems(items) THEN Tree("parse", <<>>)
        ELSE IF Has(items, UnmodelledItems) THEN Tree("unmodelled", <<>>)
        ELSE With(itemList(lexed.pieces, 1, FALSE), LAMBDA list :
                 IF ~list.ok THEN Tree("parse", <<>>)
                 ELSE IF otherItems(items) THEN Tree("unmodelled", <<>>)
                 ELSE Tree("", list.nodes))))

\* Template.Parse(value): err is "" and nodes the tree, or err is "parse"
\* for an error, or "unmodelled".
parseTemplate(value) == parseLexed(lexText(value, 1))

\* A value of the evaluator: a string, an int or a bool with its text, a
\* map[string]string, or the Scope.
Value(k, v) == [k |-> k, v |-> v]

\* The outcome of an evaluation.
Evaluated(err, val) == [err |-> err, val |-> val]

ExecError == Evaluated("execute", Value("string", <<>>))

NotEvaluated == Evaluated("unmodelled", Value("string", <<>>))

\* state.evalField under missingkey=error: a field of the Scope, or the
\* entry of a map, which has to be there; neither takes arguments.
evalField(receiver0, fieldName0, hasArgs) ==
    With(receiver0, LAMBDA receiver :
    With(fieldName0, LAMBDA fieldName :
        IF hasArgs THEN ExecError
        ELSE IF receiver.k = "scope" /\ fieldName = LitGlobal
        THEN Evaluated("", Value("map", receiver.v.Global))
        ELSE IF receiver.k = "scope" /\ fieldName = LitLocal
        THEN Evaluated("", Value("map", receiver.v.Local))
        ELSE IF receiver.k = "map" /\ fieldName \in DOMAIN receiver.v
        THEN Evaluated("", Value("string", receiver.v[fieldName]))
        ELSE ExecError))

\* state.evalFieldChain: the fields one after the other, the arguments with
\* the last one.
RECURSIVE evalFieldChain(_, _, _)
evalFieldChain(receiver0, ident0, hasArgs) ==
    With(receiver0, LAMBDA receiver :
    With(ident0, LAMBDA ident :
        IF Len(ident) = 1 THEN evalField(receiver, ident[1], hasArgs)
        ELSE With(evalField(receiver, ident[1], FALSE), LAMBDA r :
                 IF r.err # "" THEN r ELSE evalFieldChain(r.val, Tail(ident), hasArgs))))

\* fmt.Sprint of a map[string]string: the entries in the order of the keys.
RECURSIVE printEntries(_, _)
printEntries(m, keys) ==
    IF keys = <<>> THEN <<>>
    ELSE Head(keys) \o <<58>> \o m[Head(keys)]
         \o (IF Len(keys) > 1 THEN <<32>> ELSE <<>>) \o printEntries(m, Tail(keys))

printMap(m) == <<109, 97, 112, 91>> \o printEntries(m, Sorted(DOMAIN m)) \o <<93>>

\* fmt.Sprint of a value.
printValue(val0) ==
    With(val0, LAMBDA val :
        IF val.k = "map" THEN printMap(val.v)
        ELSE IF val.k = "scope"
        THEN <<123>> \o printMap(val.v.Global) \o <<32>> \o printMap(val.v.Local) \o <<125>>
        ELSE val.v)

\* state.evalArg for an argument of print, whose parameters are of type any.
evalArg(dot0, n0) ==
    With(dot0, LAMBDA dot :
    With(n0, LAMBDA n :
        IF n.t = "dot" THEN Evaluated("", dot)
        ELSE IF n.t = "field" THEN evalFieldChain(dot, n.chain, FALSE)
        ELSE IF n.t = "print" THEN Evaluated("", Value("string", <<>>))
        ELSE IF n.t = "number" THEN Evaluated("", Value("int", n.v))
        ELSE IF n.t \in {"bool", "string"} THEN Evaluated("", Value(n.t, n.v))
        ELSE NotEvaluated))

\* fmt.Sprint(args...) for the arguments from the k-th on: a space between
\* two operands of which neither is a string.  The evaluation of the
\* arguments stops at the first that fails.
RECURSIVE builtinPrint(_, _, _)
builtinPrint(dot0, args0, k0) ==
    With(dot0, LAMBDA dot :
    With(args0, LAMBDA args :
    With(k0, LAMBDA k :
        IF k > Len(args) THEN Evaluated("", Value("string", <<>>))
        ELSE With(evalArg(dot, args[k]), LAMBDA a :
                 IF a.err # "" THEN a
                 ELSE With(builtinPrint(dot, args, k + 1), LAMBDA rest :
                          IF rest.err # "" THEN rest
                          ELSE Evaluated("", Value("string",
                                   printValue(a.val)
                                   \o (IF /\ k < Len(args)
                                          /\ a.val.k # "string"
                                          /\ evalArg(dot, args[k + 1]).val.k # "string"
                                       THEN <<32>> ELSE <<>>)
                                   \o rest.val.v)))))))

\* state.evalCommand: a field chain, a call of print, or a constant, the
\* dot or nil, which take no arguments; nil is not a command.
evalCommand(dot0, args0) ==
    With(dot0, LAMBDA dot :
    With(args0, LAMBDA args :
    With(args[1], LAMBDA firstWord :
        IF firstWord.t = "field" THEN evalFieldChain(dot, firstWord.chain, Len(args) > 1)
        ELSE IF firstWord.t = "print" THEN builtinPrint(dot, args, 2)
        ELSE IF firstWord.t \in {"function", "chain", "other"} THEN NotEvaluated
        ELSE IF Len(args) > 1 \/ firstWord.t = "nil" THEN ExecError
        ELSE evalArg(dot, firstWord))))

\* isTrue of a value: a string or a map that is not empty, an int that is
\* not zero, a bool that is true, and any struct.
isTrue(val0) ==
    With(val0, LAMBDA val :
        IF val.k = "string" THEN val.v # <<>>
        ELSE IF val.k = "map" THEN DOMAIN val.v # {}
        ELSE IF val.k = "int" THEN val.v # <<48>>
        ELSE IF val.k = "bool" THEN val.v = LitTrue
        ELSE TRUE)

\* state.walk over a list of nodes: what it writes, up to the first node
\* that fails.
RECURSIVE walk(_, _)
walk(dot0, nodes0) ==
    With(dot0, LAMBDA dot :
    With(nodes0, LAMBDA nodes :
        IF nodes = <<>> THEN [err |-> "", out |-> <<>>]
        ELSE With(IF Head(nodes).t = "text" THEN Evaluated("", Value("string", <<>>))
                  ELSE evalCommand(dot, Head(nodes).pipe), LAMBDA val :
             IF val.err # "" THEN [err |-> val.err, out |-> <<>>]
             ELSE With(IF Head(nodes).t = "text" THEN [err |-> "", out |-> Head(nodes).text]
                       ELSE IF Head(nodes).t = "action"
                       THEN [err |-> "", out |-> printValue(val.val)]
                       ELSE IF isTrue(val.val) THEN walk(dot, Head(nodes).list)
                       ELSE walk(dot, Head(nodes).elseList), LAMBDA node :
                  IF node.err # "" THEN node
                  ELSE With(walk(dot, Tail(nodes)), LAMBDA rest :
                           IF rest.err # "" THEN rest
                           ELSE [err |-> "", out |-> node.out \o rest.out])))))

\* template.New(name).Option("missingkey=error").Parse(value) followed by
\* tmp.Execute(buf, scope): which of the two failed, if any, and buf.String().
template(value, scope0) ==
    With(scope0, LAMBDA scope :
    With(parseTemplate(value), LAMBDA tmp :
        IF tmp.err # "" THEN [err |-> tmp.err, out |-> <<>>]
        ELSE walk(Value("scope", scope), tmp.nodes)))

----------------------------------------------------------------------------
(* The resolver: spec.ResolveFile and resolveRequest.                      *)

\* The Scope of a template: the global and the local variables.
Scope(global, local) == [Global |-> global, Local |-> local]

\* NewScope()
NewScope == Scope(NilMap, NilMap)

DefaultConnectionTimeout == Duration(FALSE, 10, 0)

DefaultTimeout == Duration(FALSE, 30, 0)

\* spec.Request{}
ZeroResolvedRequest ==
    [Vars |-> NilMap, Headers |-> NilMap, Prompts |-> <<>>, Name |-> <<>>,
     Comment |-> <<>>, Method |-> <<>>,
     URL |-> <<>>, HTTPVersion |-> <<>>, BodyFile |-> <<>>, ResponseFile |-> <<>>,
     Body |-> <<>>,
     BodyNil |-> TRUE, Timeout |-> ZeroDuration, ConnectionTimeout |-> ZeroDuration,
     NoRedirect |-> FALSE]

\* spec.File{}
ZeroResolvedFile ==
    [Name |-> <<>>, Vars |-> NilMap, Prompts |-> <<>>, Requests |-> <<>>,
     Timeout |-> ZeroDuration,
     ConnectionTimeout |-> ZeroDuration, NoRedirect |-> FALSE]

\* A map of templates executed against the scope in a range loop that stops
\* at the first failure, and when none failed the map of the results.  When
\* some values fail in Parse and others in Execute, the order in which range
\* visits the map decides which is met: syntaxFirst is that order's outcome.
\* The outcome is "unmodelled" when that of some value is.
templates(m0, scope0, syntaxFirst) ==
    With(m0, LAMBDA m :
    With(scope0, LAMBDA scope :
    With([k \in DOMAIN m |-> template(m[k], scope)], LAMBDA r :
        [err |-> IF \A k \in DOMAIN m : r[k].err = "" THEN ""
                 ELSE IF \E k \in DOMAIN m : r[k].err = "unmodelled" THEN "unmodelled"
                 ELSE IF \A k \in DOMAIN m : r[k].err # "execute" THEN "parse"
                 ELSE IF \A k \in DOMAIN m : r[k].err # "parse" THEN "execute"
                 ELSE IF syntaxFirst THEN "parse" ELSE "execute",
         out |-> [k \in DOMAIN m |-> r[k].out]])))

\* A faulty version that puts the defaults in place whatever was set.
defaultsAlways(v0) ==
    With(v0, LAMBDA v :
    [v EXCEPT !.Timeout = DefaultTimeout,
              !.ConnectionTimeout = DefaultConnectionTimeout])

\* if resolved.Timeout == 0 { resolved.Timeout = DefaultTimeout }, and the
\* same for the connection timeout, on a File or a Request.
defaults(v0) ==
    With(v0, LAMBDA v :
    [v EXCEPT !.Timeout = IF @ = ZeroDuration THEN DefaultTimeout ELSE @,
              !.ConnectionTimeout =
                  IF @ = ZeroDuration THEN DefaultConnectionTimeout ELSE @])

Failed(msg, scope) == [err |-> msg, request |-> ZeroResolvedRequest, scope |-> scope]

\* The end of resolveRequest: the outcomes of the templates of the headers,
\* the URL and the body are tested in this order, validURL being the
\* outcome of url.ParseRequestURI on the resolved URL; own is the function's
\* copy of the scope.  in.HTTPVersion is never copied, so HTTPVersion keeps
\* its zero value.  Body is buf.Bytes() of the buffer the URL was written
\* to, a slice that is empty when the body is but never nil.  The message
\* is "unmodelled" when the outcome of the template that decides is.
resolvedRequest(in, own, headers, url, validURL, body) ==
    IF headers.err = "unmodelled" THEN Failed("unmodelled", own)
    ELSE IF headers.err = "parse"
    THEN Failed("invalid template syntax in header %s: %w", own)
    ELSE IF headers.err = "execute"
    THEN Failed("failed to execute request header templating for request %s: %w", own)
    ELSE IF url.err = "unmodelled" THEN Failed("unmodelled", own)
    ELSE IF url.err = "parse"
    THEN Failed("invalid template syntax in URL %s: %w", own)
    ELSE IF url.err = "execute"
    THEN Failed("failed to execute URL templating for request %s: %w", own)
    ELSE IF ~validURL
    THEN Failed("invalid URL for request %s: %w", own)
    ELSE IF body.err = "unmodelled" THEN Failed("unmodelled", own)
    ELSE IF body.err = "parse"
    THEN Failed("invalid template syntax in request %s body: %w", own)
    ELSE IF body.err = "execute"
    THEN Failed("failed to execute templating for request %s body: %w", own)
    ELSE [err     |-> "",
          request |-> defaults(
              [Vars              |-> IF DOMAIN in.Vars # {} THEN own.Local ELSE NilMap,
               Headers           |-> headers.out,
               Prompts           |-> in.Prompts,
               Name              |-> in.Name,
               Comment           |-> in.Comment,
               Method            |-> in.Method,
               URL               |-> url.out,
               HTTPVersion       |-> <<>>,
               BodyFile          |-> in.BodyFile,
               ResponseFile      |-> in.ResponseRef,
               Body              |-> body.out,
               BodyNil           |-> FALSE,
               Timeout           |-> in.Timeout,
               ConnectionTimeout |-> in.ConnectionTimeout,
               NoRedirect        |-> in.NoRedirect]),
          scope   |-> own]

\* The second half of resolveRequest, from the headers on: the templates
\* are executed against own, the scope with the request's variables.
resolveTemplates(in, own, syntaxFirst) ==
    resolvedRequest(in, own,
                    templates(in.Headers, own, syntaxFirst),
                    template(in.URL, own),
                    ParseRequestURIOK(template(in.URL, own).out),
                    template(in.Body, own))

\* resolveRequest once the loop over in.Vars has run with the outcome
\* locals: scope.Local = resolvedVars when there are variables, then the
\* rest of the function.
resolveVars(in, scope, locals, syntaxFirst) ==
    IF locals.err = "unmodelled" THEN Failed("unmodelled", scope)
    ELSE IF locals.err = "parse"
    THEN Failed("invalid template syntax in var %s: %w", scope)
    ELSE IF locals.err = "execute"
    THEN Failed("failed to execute request variable templating for request %s: %w", scope)
    ELSE resolveTemplates(in, IF DOMAIN in.Vars # {}
                              THEN [scope EXCEPT !.Local = locals.out]
                              ELSE scope, syntaxFirst)

\* resolveRequest(in, scope): the error's message ("" for nil), the Request
\* and the function's own copy of the scope when it returns.
resolveRequest(in, scope, syntaxFirst) ==
    resolveVars(in, scope, templates(in.Vars, scope, syntaxFirst), syntaxFirst)

RECURSIVE resolveRequestsBodyPath(_, _, _, _)
\* A faulty loop that also stores the path of the body file as the body.
resolveRequestsBodyPath(requests, scope, run, syntaxFirst) ==
    IF requests = <<>> THEN run
    ELSE With(resolveRequest(Head(requests), scope, syntaxFirst), LAMBDA r :
             IF r.err # ""
             THEN [run EXCEPT !.err = r.err, !.scopes = Append(@, scope)]
             ELSE resolveRequestsBodyPath(Tail(requests), scope,
                      [run EXCEPT !.requests = Append(@, [r.request EXCEPT
                                                !.Body = IF r.request.BodyFile # <<>>
                                                         THEN r.request.BodyFile ELSE @]),
                                  !.scopes = Append(@, scope)],
                      syntaxFirst))

RECURSIVE resolveRequestsShared(_, _, _, _)
\* A faulty loop in which the requests share one scope: each request is
\* resolved with the scope as the request before it left it.
resolveRequestsShared(requests, scope, run, syntaxFirst) ==
    IF requests = <<>> THEN run
    ELSE With(resolveRequest(Head(requests), scope, syntaxFirst), LAMBDA r :
             IF r.err # ""
             THEN [run EXCEPT !.err = r.err, !.scopes = Append(@, scope)]
             ELSE resolveRequestsShared(Tail(requests), r.scope,
                      [run EXCEPT !.requests = Append(@, r.request),
                                  !.scopes = Append(@, scope)],
                      syntaxFirst))

RECURSIVE resolveRequests(_, _, _, _)
\* The loop of ResolveFile over in.Requests from the given run on: each
\* request is resolved with ResolveFile's scope, which resolveRequest
\* receives by value.  run.scopes are the scopes the calls were made with.
resolveRequests(requests, scope, run, syntaxFirst) ==
    IF requests = <<>> THEN run
    ELSE With(resolveRequest(Head(requests), scope, syntaxFirst), LAMBDA r :
             IF r.err # ""
             THEN [run EXCEPT !.err = r.err, !.scopes = Append(@, scope)]
             ELSE resolveRequests(Tail(requests), scope,
                      [run EXCEPT !.requests = Append(@, r.request),
                                  !.scopes = Append(@, scope)],
                      syntaxFirst))

\* A faulty version that returns the requests resolved before the failure.
ResolveFilePartial(in, syntaxFirst) ==
    With(resolveRequests(in.Requests, Scope(in.Vars, NewScope.Local),
                         [err |-> "", requests |-> <<>>, scopes |-> <<>>],
                         syntaxFirst), LAMBDA run :
        [file   |-> defaults([Name              |-> in.Name,
                              Vars              |-> in.Vars,
                              Prompts           |-> in.Prompts,
                              Requests          |-> run.requests,
                              Timeout           |-> in.Timeout,
                              ConnectionTimeout |-> in.ConnectionTimeout,
                              NoRedirect        |-> in.NoRedirect]),
         err    |-> run.err,
         scopes |-> run.scopes])

\* ResolveFile(in): the File, the message of the error ("" for nil) and the
\* scope each call of resolveRequest was made with.
ResolveFile(in, syntaxFirst) ==
    With(resolveRequests(in.Requests, Scope(in.Vars, NewScope.Local),
                         [err |-> "", requests |-> <<>>, scopes |-> <<>>],
                         syntaxFirst), LAMBDA run :
        IF run.err # ""
        THEN [file |-> ZeroResolvedFile, err |-> run.err, scopes |-> run.scopes]
        ELSE [file   |-> defaults([Name              |-> in.Name,
                                   Vars              |-> in.Vars,
                                   Prompts           |-> in.Prompts,
                                   Requests          |-> run.requests,
                                   Timeout           |-> in.Timeout,
                                   ConnectionTimeout |-> in.ConnectionTimeout,
                                   NoRedirect        |-> in.NoRedirect]),
              err    |-> "",
              scopes |-> run.scopes])

\* Nothing has been resolved.
NoResolution == [done |-> FALSE, file |-> ZeroResolvedFile, err |-> "", scopes |-> <<>>]

\* ResolveFile run on the File that Parse returned, for either order of its
\* range loops.
Resolutions == {ResolveFile(result.file, syntaxFirst) : syntaxFirst \in BOOLEAN}

\* The caller passes the File that Parse returned without error to
\* ResolveFile.
Resolve ==
    /\ consumer = "parser"
    /\ cstate = "returned"
    /\ ~result.err
    /\ ~resolved.done
    /\ \E r \in Resolutions :
           resolved' = [done |-> TRUE, file |-> r.file, err |-> r.err, scopes |-> r.scopes]
    /\ cstate' = "resolved"
    /\ UNCHANGED <<src, hasHandler, consumer, s, state, pending, tokens, closed, sink,
                   got, result, console, first>>

----------------------------------------------------------------------------
(* Rendering a resolved File as text: File.String and Request.String.      *)

LitNewline == <<10>>

RECURSIVE TrimZeros(_)
\* Digits without the zeros at their end.
TrimZeros(digits) ==
    IF digits # <<>> /\ digits[Len(digits)] = 48
    THEN TrimZeros(SubSeq(digits, 1, Len(digits) - 1))
    ELSE digits

RECURSIVE PadZeros(_, _)
\* Digits with zeros in front up to the width.
PadZeros(digits, width) ==
    IF Len(digits) >= width THEN digits ELSE PadZeros(<<48>> \o digits, width)

\* fmtFrac: the fraction v / 10^prec without trailing zeros, and without
\* the point when it is zero.
fmtFrac(v, prec) ==
    IF TrimZeros(PadZeros(Digits(v), prec)) = <<>> THEN <<>>
    ELSE <<46>> \o TrimZeros(PadZeros(Digits(v), prec))

\* Duration.String for a duration of at least a second: hours and minutes
\* are printed when they are not zero or a larger unit is printed.
secondsString(sec, nsec) ==
    (IF sec \div 3600 > 0 THEN Digits(sec \div 3600) \o <<104>> ELSE <<>>)
    \o (IF sec \div 60 > 0 THEN Digits((sec \div 60) % 60) \o <<109>> ELSE <<>>)
    \o Digits(sec % 60) \o fmtFrac(nsec, 9) \o <<115>>

\* Duration.String for a duration below a second: ns, µs or ms.
fractionString(nsec) ==
    IF nsec = 0 THEN <<48, 115>>
    ELSE IF nsec < 1000 THEN Digits(nsec) \o <<110, 115>>
    ELSE IF nsec < 1000000
    THEN Digits(nsec \div 1000) \o fmtFrac(nsec % 1000, 3) \o <<194, 181, 115>>
    ELSE Digits(nsec \div 1000000) \o fmtFrac(nsec % 1000000, 6) \o <<109, 115>>

\* time.Duration.String, which %s prints.
DurationString(d) ==
    (IF d.neg THEN <<45>> ELSE <<>>)
    \o (IF d.sec = 0 THEN fractionString(d.nsec) ELSE secondsString(d.sec, d.nsec))

RECURSIVE Entries(_, _, _, _)
\* One line per key of the map, in the order given: the prefix, the key,
\* the separator, the value and a newline.
Entries(m, keys, prefix, sep) ==
    IF keys = <<>> THEN <<>>
    ELSE prefix \o Head(keys) \o sep \o m[Head(keys)] \o LitNewline
         \o Entries(m, Tail(keys), prefix, sep)

\* Prompt.String
PromptString(p) ==
    <<64, 112, 114, 111, 109, 112, 116, 32>> \o p.Name
    \o (IF p.Description # <<>> THEN <<32>> \o p.Description ELSE <<>>) \o LitNewline

RECURSIVE PromptStrings(_)
\* The loop of File.String and of Request.String over the prompts.
PromptStrings(prompts) ==
    IF prompts = <<>> THEN <<>>
    ELSE PromptString(Head(prompts)) \o PromptStrings(Tail(prompts))

\* Request.String
RequestString(r) ==
    (IF r.Comment # <<>> THEN <<35, 35, 35, 32>> \o r.Comment \o LitNewline
     ELSE <<35, 35, 35, 10>>)
    \o (IF r.Name # <<>>
        THEN <<35, 32, 64, 110, 97, 109, 101, 32, 61, 32>> \o r.Name \o LitNewline
        ELSE <<>>)
    \o PromptStrings(r.Prompts)
    \o Entries(r.Vars, Sorted(DOMAIN r.Vars), <<35, 32, 64>>, <<32, 61, 32>>)
    \o (IF r.Timeout # ZeroDuration
        THEN <<35, 32, 64, 116, 105, 109, 101, 111, 117, 116, 32, 61, 32>>
             \o DurationString(r.Timeout) \o LitNewline
        ELSE <<>>)
    \o (IF r.ConnectionTimeout # ZeroDuration
        THEN <<35, 32, 64, 99, 111, 110, 110, 101, 99, 116, 105, 111, 110, 45, 116, 105, 109, 101, 111, 117, 116, 32, 61, 32>>
             \o DurationString(r.ConnectionTimeout) \o LitNewline
        ELSE <<>>)
    \o (IF r.NoRedirect
        THEN <<35, 32, 64, 110, 111, 45, 114, 101, 100, 105, 114, 101, 99, 116, 32, 61, 32, 116, 114, 117, 101, 10>>
        ELSE <<>>)
    \o (IF r.HTTPVersion # <<>>
        THEN r.Method \o <<32>> \o r.URL \o <<32>> \o r.HTTPVersion \o LitNewline
        ELSE r.Method \o <<32>> \o r.URL \o LitNewline)
    \o Entries(r.Headers, Sorted(DOMAIN r.Headers), <<>>, <<58, 32>>)
    \o (IF ~r.BodyNil \/ r.BodyFile # <<>> \/ r.ResponseFile # <<>>
        THEN LitNewline ELSE <<>>)
    \o (IF r.BodyFile # <<>> THEN <<60, 32>> \o r.BodyFile \o LitNewline ELSE <<>>)
    \o (IF ~r.BodyNil THEN r.Body \o LitNewline ELSE <<>>)
    \o (IF r.ResponseFile # <<>>
        THEN <<62, 32>> \o r.ResponseFile \o LitNewline ELSE <<>>)

RECURSIVE RequestStrings(_)
\* The loop of File.String over f.Requests.
RequestStrings(requests) ==
    IF requests = <<>> THEN <<>>
    ELSE RequestString(Head(requests)) \o RequestStrings(Tail(requests))

\* File.String
FileString(f) ==
    (IF f.Name # <<>>
     THEN <<64, 110, 97, 109, 101, 32, 61, 32>> \o f.Name \o <<10, 10>>
     ELSE <<>>)
    \o PromptStrings(f.Prompts)
    \o Entries(f.Vars, Sorted(DOMAIN f.Vars), <<64>>, <<32, 61, 32>>)
    \o (IF f.Timeout # ZeroDuration
        THEN <<64, 116, 105, 109, 101, 111, 117, 116, 32, 61, 32>>
             \o DurationString(f.Timeout) \o LitNewline
        ELSE <<>>)
    \o (IF f.ConnectionTimeout # ZeroDuration
        THEN <<64, 99, 111, 110, 110, 101, 99, 116, 105, 111, 110, 45, 116, 105, 109, 101, 111, 117, 116, 32, 61, 32>>
             \o DurationString(f.ConnectionTimeout) \o LitNewline
        ELSE <<>>)
    \o (IF f.NoRedirect
        THEN <<64, 110, 111, 45, 114, 101, 100, 105, 114, 101, 99, 116, 32, 61, 32, 116, 114, 117, 101, 10>>
        ELSE <<>>)
    \o LitNewline
    \o RequestStrings(f.Requests)

\* The text of a resolved File is written out and parsed again: parser.New
\* on the text starts a new scanner, once the worker of the first has ended.
Render ==
    /\ consumer = "parser"
    /\ cstate = "resolved"
    /\ resolved.err = ""
    /\ closed
    /\ src' = FileString(resolved.file)
    /\ s' = [start |-> 0, pos |-> 0, line |-> 1, currentLineOffset |-> 0]
    /\ state' = "scanStart"
    /\ pending' = <<>>
    /\ tokens' = <<>>
    /\ closed' = FALSE
    /\ sink' = <<>>
    /\ got' = <<>>
    /\ cstate' = "new"
    /\ result' = NoResult
    /\ UNCHANGED <<hasHandler, consumer, resolved, console, first>>

\* The caller parses the same source again, this time with a handler:
\* parser.New(name, src, handler) starts a new scanner on the source, and the
\* result of the parse without a handler is kept for comparison.
Reparse ==
    /\ consumer = "parser"
    /\ cstate = "returned"
    /\ ~hasHandler
    /\ closed
    /\ first' = result
    /\ hasHandler' = TRUE
    /\ s' = [start |-> 0, pos |-> 0, line |-> 1, currentLineOffset |-> 0]
    /\ state' = "scanStart"
    /\ pending' = <<>>
    /\ tokens' = <<>>
    /\ closed' = FALSE
    /\ sink' = <<>>
    /\ got' = <<>>
    /\ cstate' = "new"
    /\ result' = NoResult
    /\ UNCHANGED <<src, consumer, resolved, console>>

----------------------------------------------------------------------------
(* The sources checked: every concatenation of at most MaxFrags fragments,
   and one long request *)

Fragments ==
    { <<35, 35, 35, 10, 71, 69, 84, 32, 104, 116, 116, 112, 58, 47, 47, 97, 10>>,   \* ###\nGET http://a\n: a request
      <<64, 116, 105, 109, 101, 111, 117, 116, 32, 53, 115, 10>>,   \* @timeout 5s\n: a timeout directive
      <<64, 116, 105, 109, 101, 111, 117, 116, 32, 120, 10>>,   \* @timeout x\n: a timeout that is no duration
      <<72, 58, 32, 118, 10>>,   \* H: v\n: a header
      <<255>>,   \* ÿ: a byte that is no UTF-8
      <<10, 123, 125, 10>>,   \* \n{}\n: a body
      <<120>> }   \* x: a word

MaxFrags == 3

RECURSIVE Concat(_)
Concat(n) ==
    IF n = 0 THEN {<<>>}
    ELSE With(Concat(n - 1), LAMBDA shorter :
             shorter \cup {a \o f : a \in shorter, f \in Fragments})

\* A request with so many headers that its tokens do not fit the channel:
\* ###\nGET http://a\n followed by LongHeaders lines H: v\n.
LongHeaders == 10

RECURSIVE HeaderLines(_)
HeaderLines(n) ==
    IF n = 0 THEN <<>> ELSE <<72, 58, 32, 118, 10>> \o HeaderLines(n - 1)

LongSource ==
    <<35, 35, 35, 10, 71, 69, 84, 32, 104, 116, 116, 112, 58, 47, 47, 97, 10>>
        \o HeaderLines(LongHeaders)

Sources == Concat(MaxFrags) \cup {LongSource}

----------------------------------------------------------------------------
(* The files checked from source text to resolved File *)

Samples ==
    \* two requests with the same @name: ###\n# @name a\nGET http://a\n###\n# @name a\nGET http://a\n
    { <<35, 35, 35, 10, 35, 32, 64, 110, 97, 109, 101, 32, 97, 10, 71, 69, 84, 32, 104,
        116, 116, 112, 58, 47, 47, 97, 10, 35, 35, 35, 10, 35, 32, 64, 110, 97, 109,
        101, 32, 97, 10, 71, 69, 84, 32, 104, 116, 116, 112, 58, 47, 47, 97, 10>>,
      \* headers, an inline body, then a body file: ###\nPOST http://a\nH: v\n\n{}\n< ./f\n
      <<35, 35, 35, 10, 80, 79, 83, 84, 32, 104, 116, 116, 112, 58, 47, 47, 97, 10, 72,
        58, 32, 118, 10, 10, 123, 125, 10, 60, 32, 46, 47, 102, 10>>,
      \* headers, a body file, then an inline body: ###\nPOST http://a\nH: v\n\n< ./f\n{}\n
      <<35, 35, 35, 10, 80, 79, 83, 84, 32, 104, 116, 116, 112, 58, 47, 47, 97, 10, 72,
        58, 32, 118, 10, 10, 60, 32, 46, 47, 102, 10, 123, 125, 10>>,
      \* a body file; an inline body: ###\nPOST http://a\nH: v\n\n< ./f\n###\nPOST http://a\nH: v\n\n{}\n
      <<35, 35, 35, 10, 80, 79, 83, 84, 32, 104, 116, 116, 112, 58, 47, 47, 97, 10, 72,
        58, 32, 118, 10, 10, 60, 32, 46, 47, 102, 10, 35, 35, 35, 10, 80, 79, 83,
        84, 32, 104, 116, 116, 112, 58, 47, 47, 97, 10, 72, 58, 32, 118, 10, 10,
        123, 125, 10>>,
      \* templates in URL, header and body: @base = http://x\n###\n@a = 1\nGET {{.Global.base}}/i\nH: {{.Local.a}}\n\n{"u": "{{ .Local.a }}"}\n
      <<64, 98, 97, 115, 101, 32, 61, 32, 104, 116, 116, 112, 58, 47, 47, 120, 10, 35, 35,
        35, 10, 64, 97, 32, 61, 32, 49, 10, 71, 69, 84, 32, 123, 123, 46, 71, 108,
        111, 98, 97, 108, 46, 98, 97, 115, 101, 125, 125, 47, 105, 10, 72, 58, 32,
        123, 123, 46, 76, 111, 99, 97, 108, 46, 97, 125, 125, 10, 10, 123, 34, 117,
        34, 58, 32, 34, 123, 123, 32, 46, 76, 111, 99, 97, 108, 46, 97, 32, 125,
        125, 34, 125, 10>>,
      \* a local variable that refers to another: ###\n@a = 1\n@b = v{{.Local.a}}\nGET http://a\n
      <<35, 35, 35, 10, 64, 97, 32, 61, 32, 49, 10, 64, 98, 32, 61, 32, 118, 123, 123, 46,
        76, 111, 99, 97, 108, 46, 97, 125, 125, 10, 71, 69, 84, 32, 104, 116, 116,
        112, 58, 47, 47, 97, 10>>,
      \* a local variable that refers to a global: @g = 1\n###\n@a = v{{.Global.g}}\nGET http://a\n
      <<64, 103, 32, 61, 32, 49, 10, 35, 35, 35, 10, 64, 97, 32, 61, 32, 118, 123, 123,
        46, 71, 108, 111, 98, 97, 108, 46, 103, 125, 125, 10, 71, 69, 84, 32, 104,
        116, 116, 112, 58, 47, 47, 97, 10>>,
      \* a request that refers to another request's local: ###\n@a = 1\nGET http://a\nH: {{.Local.a}}\n###\nGET http://a\nH: {{.Local.a}}\n
      <<35, 35, 35, 10, 64, 97, 32, 61, 32, 49, 10, 71, 69, 84, 32, 104, 116, 116, 112,
        58, 47, 47, 97, 10, 72, 58, 32, 123, 123, 46, 76, 111, 99, 97, 108, 46, 97,
        125, 125, 10, 35, 35, 35, 10, 71, 69, 84, 32, 104, 116, 116, 112, 58, 47,
        47, 97, 10, 72, 58, 32, 123, 123, 46, 76, 111, 99, 97, 108, 46, 97, 125,
        125, 10>>,
      \* two requests, each with its own local: ###\n@a = 1\nGET http://a\nH: {{.Local.a}}\n###\n@b = 2\nGET http://a\nH: {{.Local.b}}\n
      <<35, 35, 35, 10, 64, 97, 32, 61, 32, 49, 10, 71, 69, 84, 32, 104, 116, 116, 112,
        58, 47, 47, 97, 10, 72, 58, 32, 123, 123, 46, 76, 111, 99, 97, 108, 46, 97,
        125, 125, 10, 35, 35, 35, 10, 64, 98, 32, 61, 32, 50, 10, 71, 69, 84, 32,
        104, 116, 116, 112, 58, 47, 47, 97, 10, 72, 58, 32, 123, 123, 46, 76, 111,
        99, 97, 108, 46, 98, 125, 125, 10>>,
      \* timeouts below 10ms: @timeout 1ns\n###\n@connection-timeout 5ms\nGET http://a\n
      <<64, 116, 105, 109, 101, 111, 117, 116, 32, 49, 110, 115, 10, 35, 35, 35, 10, 64,
        99, 111, 110, 110, 101, 99, 116, 105, 111, 110, 45, 116, 105, 109, 101, 111,
        117, 116, 32, 53, 109, 115, 10, 71, 69, 84, 32, 104, 116, 116, 112, 58, 47,
        47, 97, 10>>,
      \* a negative timeout: ###\n@timeout -5s\nGET http://a\n
      <<35, 35, 35, 10, 64, 116, 105, 109, 101, 111, 117, 116, 32, 45, 53, 115, 10, 71,
        69, 84, 32, 104, 116, 116, 112, 58, 47, 47, 97, 10>>,
      \* timeouts above 10ms: @timeout 5s\n###\n@connection-timeout 1s\nGET http://a\n
      <<64, 116, 105, 109, 101, 111, 117, 116, 32, 53, 115, 10, 35, 35, 35, 10, 64, 99,
        111, 110, 110, 101, 99, 116, 105, 111, 110, 45, 116, 105, 109, 101, 111,
        117, 116, 32, 49, 115, 10, 71, 69, 84, 32, 104, 116, 116, 112, 58, 47, 47,
        97, 10>>,
      \* an undefined key and an unterminated action: ###\nGET http://a\nH: {{.Global.g}}\nI: {{.Global.g\n
      <<35, 35, 35, 10, 71, 69, 84, 32, 104, 116, 116, 112, 58, 47, 47, 97, 10, 72, 58,
        32, 123, 123, 46, 71, 108, 111, 98, 97, 108, 46, 103, 125, 125, 10, 73, 58,
        32, 123, 123, 46, 71, 108, 111, 98, 97, 108, 46, 103, 10>>,
      \* a URL that is an undefined key: ###\nGET {{.Global.g}}\n
      <<35, 35, 35, 10, 71, 69, 84, 32, 123, 123, 46, 71, 108, 111, 98, 97, 108, 46, 103,
        125, 125, 10>>,
      \* a request timeout written with =: ###\n@timeout = 5s\nGET http://a\n
      <<35, 35, 35, 10, 64, 116, 105, 109, 101, 111, 117, 116, 32, 61, 32, 53, 115,
        10, 71, 69, 84, 32, 104, 116, 116, 112, 58, 47, 47, 97, 10>>,
      \* a global variable whose value has a template opener: @g = v{{x\n###\nGET http://a\n
      <<64, 103, 32, 61, 32, 118, 123, 123, 120, 10, 35, 35, 35, 10, 71, 69, 84, 32,
        104, 116, 116, 112, 58, 47, 47, 97, 10>>,
      \* a header that substitutes a global whose value is a template: @g = v{{.Local.a}}\n###\nGET http://a\nH: {{.Global.g}}\n
      <<64, 103, 32, 61, 32, 118, 123, 123, 46, 76, 111, 99, 97, 108, 46, 97, 125,
        125, 10, 35, 35, 35, 10, 71, 69, 84, 32, 104, 116, 116, 112, 58, 47, 47, 97,
        10, 72, 58, 32, 123, 123, 46, 71, 108, 111, 98, 97, 108, 46, 103, 125, 125,
        10>>,
      \* a URL that is a variable whose value is no URL: @g = x\n###\nGET {{.Global.g}}\n
      <<64, 103, 32, 61, 32, 120, 10, 35, 35, 35, 10, 71, 69, 84, 32, 123, 123, 46,
        71, 108, 111, 98, 97, 108, 46, 103, 125, 125, 10>>,
      \* a request without a method, then a well-formed request: ###\n@a = 1\n###\nGET http://a\n
      <<35, 35, 35, 10, 64, 97, 32, 61, 32, 49, 10, 35, 35, 35, 10, 71, 69, 84, 32,
        104, 116, 116, 112, 58, 47, 47, 97, 10>>,
      \* a request variable written with =: ###\n@a = 1\nGET http://a\n
      <<35, 35, 35, 10, 64, 97, 32, 61, 32, 49, 10, 71, 69, 84, 32, 104, 116, 116,
        112, 58, 47, 47, 97, 10>>,
      \* a request variable written without =: ###\n@a 1\nGET http://a\n
      <<35, 35, 35, 10, 64, 97, 32, 49, 10, 71, 69, 84, 32, 104, 116, 116, 112, 58,
        47, 47, 97, 10>>,
      \* a request timeout written without =: ###\n@timeout 5s\nGET http://a\n
      <<35, 35, 35, 10, 64, 116, 105, 109, 101, 111, 117, 116, 32, 53, 115, 10, 71,
        69, 84, 32, 104, 116, 116, 112, 58, 47, 47, 97, 10>>,
      \* a file timeout that is no duration: @timeout x\n###\nGET http://a\n
      <<64, 116, 105, 109, 101, 111, 117, 116, 32, 120, 10, 35, 35, 35, 10, 71, 69,
        84, 32, 104, 116, 116, 112, 58, 47, 47, 97, 10>>,
      \* a file timeout without a value: @timeout\n###\nGET http://a\n
      <<64, 116, 105, 109, 101, 111, 117, 116, 10, 35, 35, 35, 10, 71, 69, 84, 32,
        104, 116, 116, 112, 58, 47, 47, 97, 10>>,
      \* a request connection timeout that is no duration: ###\n@connection-timeout x\nGET http://a\n
      <<35, 35, 35, 10, 64, 99, 111, 110, 110, 101, 99, 116, 105, 111, 110, 45, 116,
        105, 109, 101, 111, 117, 116, 32, 120, 10, 71, 69, 84, 32, 104, 116, 116,
        112, 58, 47, 47, 97, 10>>,
      \* file-level settings and a request that sets none: @no-redirect\n@timeout 5s\n@connection-timeout 1s\n###\nGET http://a\n
      <<64, 110, 111, 45, 114, 101, 100, 105, 114, 101, 99, 116, 10, 64, 116, 105,
        109, 101, 111, 117, 116, 32, 53, 115, 10, 64, 99, 111, 110, 110, 101, 99,
        116, 105, 111, 110, 45, 116, 105, 109, 101, 111, 117, 116, 32, 49, 115, 10,
        35, 35, 35, 10, 71, 69, 84, 32, 104, 116, 116, 112, 58, 47, 47, 97, 10>>,
      \* a request line with an HTTP version: ###\nGET http://a HTTP/1.1\n
      <<35, 35, 35, 10, 71, 69, 84, 32, 104, 116, 116, 112, 58, 47, 47, 97, 32, 72,
        84, 84, 80, 47, 49, 46, 49, 10>>,
      \* an HTTP version whose fraction has no digit: ###\nGET http://a HTTP/1.x\n
      <<35, 35, 35, 10, 71, 69, 84, 32, 104, 116, 116, 112, 58, 47, 47, 97, 32, 72,
        84, 84, 80, 47, 49, 46, 120, 10>>,
      \* an HTTP version without a digit: ###\nGET http://a HTTP/-1\n
      <<35, 35, 35, 10, 71, 69, 84, 32, 104, 116, 116, 112, 58, 47, 47, 97, 32, 72,
        84, 84, 80, 47, 45, 49, 10>>,
      \* a global variable whose value is a URL: @base = https://httpbin.org\n###\nGET http://a\n
      <<64, 98, 97, 115, 101, 32, 61, 32, 104, 116, 116, 112, 115, 58, 47, 47, 104,
        116, 116, 112, 98, 105, 110, 46, 111, 114, 103, 10, 35, 35, 35, 10, 71, 69,
        84, 32, 104, 116, 116, 112, 58, 47, 47, 97, 10>>,
      \* a global variable whose name begins with http: @httpbin = https://httpbin.org\n###\nGET http://a\n
      <<64, 104, 116, 116, 112, 98, 105, 110, 32, 61, 32, 104, 116, 116, 112, 115,
        58, 47, 47, 104, 116, 116, 112, 98, 105, 110, 46, 111, 114, 103, 10, 35, 35,
        35, 10, 71, 69, 84, 32, 104, 116, 116, 112, 58, 47, 47, 97, 10>>,
      \* a file variable written with =: @a = 1\n###\nGET http://a\n
      <<64, 97, 32, 61, 32, 49, 10, 35, 35, 35, 10, 71, 69, 84, 32, 104, 116,
        116, 112, 58, 47, 47, 97, 10>>,
      \* a file variable written without =: @a 1\n###\nGET http://a\n
      <<64, 97, 32, 49, 10, 35, 35, 35, 10, 71, 69, 84, 32, 104, 116, 116,
        112, 58, 47, 47, 97, 10>>,
      \* a request name written with =: ###\n# @name = a\nGET http://a\n
      <<35, 35, 35, 10, 35, 32, 64, 110, 97, 109, 101, 32, 61, 32, 97, 10, 71,
        69, 84, 32, 104, 116, 116, 112, 58, 47, 47, 97, 10>>,
      \* a request name written without =: ###\n# @name a\nGET http://a\n
      <<35, 35, 35, 10, 35, 32, 64, 110, 97, 109, 101, 32, 97, 10, 71, 69, 84,
        32, 104, 116, 116, 112, 58, 47, 47, 97, 10>>,
      \* a file connection timeout written with =: @connection-timeout = 1s\n###\nGET http://a\n
      <<64, 99, 111, 110, 110, 101, 99, 116, 105, 111, 110, 45, 116, 105, 109,
        101, 111, 117, 116, 32, 61, 32, 49, 115, 10, 35, 35, 35, 10, 71, 69,
        84, 32, 104, 116, 116, 112, 58, 47, 47, 97, 10>>,
      \* a file connection timeout written without =: @connection-timeout 1s\n###\nGET http://a\n
      <<64, 99, 111, 110, 110, 101, 99, 116, 105, 111, 110, 45, 116, 105, 109,
        101, 111, 117, 116, 32, 49, 115, 10, 35, 35, 35, 10, 71, 69, 84, 32,
        104, 116, 116, 112, 58, 47, 47, 97, 10>> }

----------------------------------------------------------------------------
(* Specifications *)

\* scanner.New, called by the consumer or by parser.New: the worker is
\* started and has scanned nothing yet.
StartWith(sources, consumers, pretty) ==
    /\ src \in sources
    /\ hasHandler \in BOOLEAN
    /\ consumer \in consumers
    /\ s = [start |-> 0, pos |-> 0, line |-> 1, currentLineOffset |-> 0]
    /\ state = "scanStart"
    /\ pending = <<>>
    /\ tokens = <<>>
    /\ closed = FALSE
    /\ sink = <<>>
    /\ got = <<>>
    /\ cstate = IF consumer = "parser" THEN "new" ELSE "run"
    /\ result = NoResult
    /\ resolved = NoResolution
    /\ console \in {NewConsole(on) : on \in pretty}
    /\ first = NoResult

\* The handler, when one is installed, is not PrettyConsoleHandler.
StartFrom(sources, consumers) == StartWith(sources, consumers, {FALSE})

Start(consumers) == StartFrom(Sources, consumers)

\* The scanner with a consumer that calls Scan or ranges over All.
Init == Start({"scan", "all"})

Next == Worker \/ Scan \/ AllNext \/ AllBreak

Spec == Init /\ [][Next]_vars

\* The worker goroutine is scheduled whenever it can run; the consumer may
\* stop at any time.
SpecWorker == Spec /\ WF_vars(Worker)

\* The worker is scheduled and the consumer keeps receiving unless it
\* leaves the loop over All.
SpecFair == Spec /\ WF_vars(Worker) /\ WF_vars(Scan) /\ WF_vars(AllNext)

\* The scanner as the parser runs it.
InitParse == Start({"parser"})

NextParse == Worker \/ ParserNext

SpecParse == InitParse /\ [][NextParse]_vars

\* The worker and the goroutine that calls New and Parse are both scheduled.
SpecParseFair == SpecParse /\ WF_vars(Worker) /\ WF_vars(ParserNext)

\* The parser on every source first without a handler and then, once Parse
\* has returned, again with one.
InitTwice == Start({"parser"}) /\ ~hasHandler

NextTwice == Worker \/ ParserNext \/ Reparse

SpecTwice == InitTwice /\ [][NextTwice]_vars

\* A file read, parsed and, when Parse returned no error, resolved.
InitFile == StartFrom(Samples, {"parser"})

NextFile == Worker \/ ParserNext \/ Resolve

SpecFile == InitFile /\ [][NextFile]_vars

\* The files rendered and parsed again: a named request, a request
\* without a name, and a named request with a header and a body.
RoundTripSamples ==
    { \* ###\n# @name a\nGET http://a\n
      <<35, 35, 35, 10, 35, 32, 64, 110, 97, 109, 101, 32, 97, 10, 71, 69, 84, 32,
        104, 116, 116, 112, 58, 47, 47, 97, 10>>,
      \* ###\nGET http://a\n
      <<35, 35, 35, 10, 71, 69, 84, 32, 104, 116, 116, 112, 58, 47, 47, 97, 10>>,
      \* ###\n# @name a\nPOST http://a\nH: v\n\n{}\n
      <<35, 35, 35, 10, 35, 32, 64, 110, 97, 109, 101, 32, 97, 10, 80, 79, 83, 84, 32,
        104, 116, 116, 112, 58, 47, 47, 97, 10, 72, 58, 32, 118, 10, 10, 123, 125,
        10>>,
      \* \xff: a source the scanner reports, which is never rendered
      <<255>> }

InitRoundTrip == StartFrom(RoundTripSamples, {"parser"})

\* A file read, parsed, resolved, rendered as text and parsed again.
NextRoundTrip == Worker \/ ParserNext \/ Resolve \/ Render

SpecRoundTrip == InitRoundTrip /\ [][NextRoundTrip]_vars

\* Sources for which the scanner and the parser both report: an invalid
\* byte, a bad timeout followed by an invalid byte, and a method without URL.
ConsoleSources ==
    { <<255>>,                                                       \* \xff
      <<64, 116, 105, 109, 101, 111, 117, 116, 32, 120, 10, 255>>,   \* @timeout x\n\xff
      <<35, 35, 35, 10, 71, 69, 84, 32, 120, 10>> }                  \* ###\nGET x\n

\* The parser with PrettyConsoleHandler(w) as its handler, which the
\* scanner's worker and the parser both call.
InitConsole == StartWith(ConsoleSources, {"parser"}, {TRUE}) /\ hasHandler

NextConsole == Worker \/ ParserNext \/ ConsoleWrite

SpecConsole == InitConsole /\ [][NextConsole]_vars

----------------------------------------------------------------------------
(* Properties of the scanner *)

\* A token that ends the stream.
Terminal(tok) == tok.Kind \in {"EOF", "Error"}

\* The tokens the consumer has received from the worker, without the zero
\* tokens a closed channel yields.
Yielded == With(SelectSeq(got, LAMBDA g : g.ok), LAMBDA real :
               [i \in 1..Len(real) |-> real[i].tok])

\* Every token the worker has sent so far, in the order it sent them.
Emitted == Yielded \o tokens

\* The tokens the running scanFn is still to send.
Unsent == SelectSeq(pending, LAMBDA o : o.op = "send")

\* The consumer has received the worker's terminal token.
TerminalReceived == \E i \in 1..Len(got) : got[i].ok /\ Terminal(got[i].tok)

\* C1: once Scan has returned a token of kind Error or EOF, every later call
\* of Scan returns a token of kind EOF.
C1_ScanAfterTerminal ==
    consumer = "scan" =>
        \A i, j \in 1..Len(got) :
            (i < j /\ Terminal(got[i].tok)) => got[j].tok.Kind = "EOF"

\* Scan returned an Error token and was called twice more.
C1_Witness ==
    /\ consumer = "scan"
    /\ \E i \in 1..Len(got) : got[i].tok.Kind = "Error" /\ Len(got) >= i + 2

\* C2: the worker sends exactly one terminal token (EOF or Error) and it is
\* the last token it sends; All yields every token up to and including it
\* and then returns.
C2_OneTerminalLast ==
    /\ \A i \in 1..Len(Emitted) :
           Terminal(Emitted[i]) => (i = Len(Emitted) /\ Unsent = <<>>)
    /\ closed => (Emitted # <<>> /\ Terminal(Emitted[Len(Emitted)]))
    /\ (consumer = "all" /\ cstate = "done") =>
           (closed /\ tokens = <<>> /\ Yielded = Emitted)

\* All has yielded several tokens, the last of them an Error, and returned.
C2_Witness ==
    /\ consumer = "all"
    /\ cstate = "done"
    /\ Len(got) >= 3
    /\ got[Len(got)].tok.Kind = "Error"

\* Every token of a sequence lies within the source.
InBounds(toks0) ==
    With(toks0, LAMBDA toks :
    \A i \in 1..Len(toks) :
        0 <= toks[i].Start /\ toks[i].Start <= toks[i].End /\ toks[i].End <= Len(src))

\* C3: every token the scanner emits or returns, the terminal token and the
\* tokens returned after the stream has ended included, has
\* 0 <= Start <= End <= len(source).
C3_OffsetsInBounds ==
    /\ InBounds([i \in 1..Len(got) |-> got[i].tok])
    /\ InBounds(tokens)
    /\ InBounds([i \in 1..Len(Unsent) |-> Unsent[i].tok])

\* Scan has returned an Error token of a source of several bytes and then a
\* token from the closed channel.
C3_Witness ==
    /\ consumer = "scan"
    /\ Len(src) >= 3
    /\ \E i \in 1..Len(got) : got[i].ok /\ got[i].tok.Kind = "Error"
    /\ \E i \in 1..Len(got) : ~got[i].ok

\* C4: if the consumer keeps receiving (it does not leave the loop over All
\* early), the worker reaches the end of its state machine and closes the
\* channel.
C4_ScannerTerminates == <>(closed \/ cstate = "broke")

\* The worker has closed the channel after a consumer that never left the
\* loop received more tokens than the channel holds.
C4_Witness ==
    /\ closed
    /\ cstate # "broke"
    /\ Len(Yielded) > bufferSize
    /\ Terminal(Yielded[Len(Yielded)])

\* C5: once the consumer has received the terminal token, the worker ends
\* and closes the channel, whatever the consumer does or does not do next.
C5_WorkerEnds == TerminalReceived ~> closed

\* The consumer holds the terminal token while the worker is still running.
C5_Witness == TerminalReceived /\ ~closed

----------------------------------------------------------------------------
(* Properties of the parser *)

\* The tokens the parser received before the first Error token.
BeforeError ==
    With(CHOOSE i \in 1..Len(got) :
             /\ got[i].tok.Kind = "Error"
             /\ \A j \in 1..(i - 1) : got[j].tok.Kind # "Error", LAMBDA i :
        SubSeq(Toks, 1, i - 1))

ErrorReceived == \E i \in 1..Len(got) : got[i].tok.Kind = "Error"

\* C6: when Parse returns, the worker has returned from its state machine,
\* sent all it had to send and closed the channel, and no token is left in it.
C6_WorkerDoneAtReturn ==
    cstate = "returned" =>
        (closed /\ state = "nil" /\ pending = <<>> /\ tokens = <<>>)

\* Parse has returned a File with a request in it.
C6_Witness ==
    /\ cstate = "returned"
    /\ ~result.err
    /\ Len(result.file.Requests) >= 1

\* C7: Parse returns ErrParse if and only if Parser.error was called during
\* the parse; with a handler installed that is if and only if the handler
\* was called; without an error Parse returns the File it built.
C7_ErrorIffDiagnostic ==
    cstate = "returned" =>
        /\ result.err <=> Parsed.p.calls # <<>>
        /\ hasHandler => (result.err <=> sink # <<>>)
        /\ ~result.err => (result.file = Parsed.built /\ result.file # ZeroFile)

\* Parse has returned ErrParse after the handler was called twice or more.
C7_Witness ==
    /\ cstate = "returned"
    /\ result.err
    /\ hasHandler
    /\ Len(sink) >= 2

\* C8: if the scanner emitted an Error token, Parse returns ErrParse and
\* the zero File.
C8_ScannerErrorAborts ==
    (cstate = "returned" /\ ErrorReceived) =>
        (result.err /\ result.file = ZeroFile)

\* Parse has returned after an Error token that followed a request which,
\* on its own, parses without error.
C8_Witness ==
    /\ cstate = "returned"
    /\ ErrorReceived
    /\ ~Parse(New(BeforeError)).err
    /\ Len(Parse(New(BeforeError)).file.Requests) >= 1

\* C9: whenever Parse returns ErrParse, the File it returns is the zero File.
C9_ZeroFileOnError ==
    (cstate = "returned" /\ result.err) => result.file = ZeroFile

\* Parse has returned ErrParse, with no error from the scanner, after it
\* had built a File with a request and a timeout.
C9_Witness ==
    /\ cstate = "returned"
    /\ result.err
    /\ ~ErrorReceived
    /\ Len(Parsed.built.Requests) >= 1
    /\ Parsed.built.Timeout # ZeroDuration

\* C10: a call of Parse returns.
C10_ParseReturns == (cstate = "parsing") ~> (cstate = "returned")

\* Parse is waiting in Scan for a token the worker has not sent yet.
C10_Witness ==
    /\ cstate = "parsing"
    /\ ParserCalled = Len(ParserCalls)
    /\ NeedsToken
    /\ ~CanReceive

----------------------------------------------------------------------------
(* Properties of the scanner's diagnostics *)

\* The calls of the handler made by the scanner.
ScannerCalls == SelectSeq(sink, LAMBDA c : c.by = "scanner")

\* The worker has sent an Error token.
ErrorEmitted == \E i \in 1..Len(Emitted) : Emitted[i].Kind = "Error"

\* C11, as stated: when the consumer has received an Error token, the
\* handler (if one is installed) has already been called by the scanner.
C11_ReportedBeforeError ==
    (hasHandler /\ ErrorReceived) => ScannerCalls # <<>>

\* C11, amended: the scanner sends the Error token first and calls the
\* handler after it, before it closes the channel: a call of the handler is
\* never made before the Error token is sent, and once the channel is closed
\* after an Error token the handler has been called exactly once.
C11_ReportedBeforeClose ==
    /\ ScannerCalls # <<>> => ErrorEmitted
    /\ (hasHandler /\ closed /\ ErrorEmitted) => Len(ScannerCalls) = 1

\* The consumer has received the Error token and found the channel closed,
\* and the handler has been called.
C11_Witness ==
    /\ hasHandler
    /\ consumer = "scan"
    /\ ErrorReceived
    /\ \E i \in 1..Len(got) : ~got[i].ok
    /\ Len(ScannerCalls) = 1

\* The source holds a byte that occurs in no valid UTF-8 sequence (0xC0, 0xC1,
\* 0xF5..0xFF), so utf8.Valid(src) is false.
HasInvalidByte == \E i \in 1..Len(src) : src[i] \in ({192, 193} \cup (245..255))

\* C12, as stated: a source with an invalid UTF-8 byte sequence anywhere
\* ends in an Error token, not EOF, and is reported to the handler.
C12_InvalidAnywhereIsError ==
    (closed /\ HasInvalidByte) =>
        /\ Emitted[Len(Emitted)].Kind = "Error"
        /\ hasHandler => ScannerCalls # <<>>

\* scanStart is about to read an invalid byte sequence as the first
\* character after the whitespace it skips.
AtTopLevelInvalid ==
    /\ state = "scanStart"
    /\ pending = <<>>
    /\ peek(skip(Running(s), "IsSpace")) = RuneError

\* C12, amended: an invalid UTF-8 byte sequence that scanStart reads where
\* a token may start makes the worker send an Error token, call the
\* handler if there is one, and leave its state machine.
C12_TopLevelInvalidIsError ==
    [][(AtTopLevelInvalid /\ <<s, state, pending>>' # <<s, state, pending>>) =>
           /\ state' = "nil"
           /\ Len(pending') = (IF hasHandler THEN 2 ELSE 1)
           /\ pending'[1].op = "send"
           /\ pending'[1].tok.Kind = "Error"
           /\ hasHandler => pending'[2].op = "handler"]_vars

\* The stream has ended with an Error token for an invalid byte that
\* followed other tokens, and the handler has been called.
C12_Witness ==
    /\ closed
    /\ hasHandler
    /\ Len(Emitted) >= 2
    /\ Emitted[Len(Emitted)].Kind = "Error"
    /\ src[Emitted[Len(Emitted)].Start + 1] = 255
    /\ ScannerCalls # <<>>

\* The tokens of a sequence follow each other in the source: none starts
\* before the one before it ends.
InSourceOrder(toks0) ==
    With(toks0, LAMBDA toks :
    \A i \in 1..(Len(toks) - 1) : toks[i].End <= toks[i + 1].Start)

\* C13: the tokens the worker emits reach the consumer in the order of the
\* source: the tokens received from the channel, those still in it and those
\* about to be sent, in this order, never overlap or go backwards.  (The
\* zero tokens Scan returns once the channel is closed are not emitted and
\* are not counted.)
C13_SourceOrder ==
    InSourceOrder(Emitted \o [i \in 1..Len(Unsent) |-> Unsent[i].tok])

\* The consumer has received four tokens or more, two of them with skipped
\* source text between them, while another token waits in the channel.
C13_Witness ==
    /\ Len(Yielded) >= 4
    /\ \E i \in 1..(Len(Yielded) - 1) : Yielded[i].End < Yielded[i + 1].Start
    /\ tokens # <<>>

----------------------------------------------------------------------------
(* Properties of the File that Parse returns *)

\* Parse has returned a File and no error.
ParsedOK == cstate = "returned" /\ ~result.err

\* C14: in a File that Parse returns without error every request has a name
\* that is not empty, a method that is one of the nine method literals and
\* a URL that is not empty.
C14_RequestsComplete ==
    ParsedOK =>
        \A i \in 1..Len(result.file.Requests) :
            /\ result.file.Requests[i].Name # <<>>
            /\ Method(result.file.Requests[i].Method) \in MethodKinds
            /\ result.file.Requests[i].URL # <<>>

\* Parse has returned, without error, a File with two requests.
C14_Witness ==
    /\ ParsedOK
    /\ Len(result.file.Requests) >= 2

----------------------------------------------------------------------------
(* Properties of the requests of a File *)

\* C15: in every File that Parse returns without error no two requests
\* have the same name, a request's name being the one its @name gave or,
\* without one, #k for the k-th request of the file.
C15_NamesUnique ==
    ParsedOK =>
        \A i \in 1..Len(result.file.Requests) : \A j \in 1..Len(result.file.Requests) :
            i < j => result.file.Requests[i].Name # result.file.Requests[j].Name

ResolvedOK == resolved.done /\ resolved.err = ""

\* C16: in every file that was parsed and then resolved without error no
\* request has both a body file and a non-empty inline body.
C16_OneBodySource ==
    ResolvedOK =>
        \A i \in 1..Len(resolved.file.Requests) :
            ~(resolved.file.Requests[i].BodyFile # <<>>
              /\ resolved.file.Requests[i].Body # <<>>)

\* A file has been resolved whose first request has a body file and whose
\* second request has an inline body.
C16_Witness ==
    /\ ResolvedOK
    /\ Len(resolved.file.Requests) = 2
    /\ resolved.file.Requests[1].BodyFile # <<>>
    /\ resolved.file.Requests[1].Body = <<>>
    /\ resolved.file.Requests[2].BodyFile = <<>>
    /\ resolved.file.Requests[2].Body # <<>>

----------------------------------------------------------------------------
(* Properties of the body of a request *)

LitBodyThenFile ==
    <<35, 35, 35, 10, 80, 79, 83, 84, 32, 104, 116, 116, 112, 58, 47, 47, 97, 10, 72,
      58, 32, 118, 10, 10, 123, 125, 10, 60, 32, 46, 47, 102, 10>>

ReportedBothBodies ==
    \E i \in 1..Len(sink) :
        /\ sink[i].by = "parser"
        /\ sink[i].msg = "cannot have both an inline body and an input body file"

\* C17: when the source is a request whose headers are followed by an
\* inline body and then a line < path (here ###\nPOST http://a\nH: v\n\n{}\n
\* and < ./f\n), the parser calls the handler with "cannot have both an
\* inline body and an input body file" and Parse returns an error.
C17_BothBodiesReported ==
    (src = LitBodyThenFile /\ cstate = "returned") =>
        /\ result.err
        /\ hasHandler => ReportedBothBodies

----------------------------------------------------------------------------
(* Properties of the scopes of the resolver *)

\* The templates of a request of the parsed File.
Templates(request0) ==
    With(request0, LAMBDA request :
    {request.URL, request.Body}
        \cup {request.Headers[h] : h \in DOMAIN request.Headers}
        \cup {request.Vars[v] : v \in DOMAIN request.Vars})

\* The field chains of the operands of a list of nodes.
RECURSIVE Chains(_)
Chains(nodes) ==
    IF nodes = <<>> THEN {}
    ELSE {Head(nodes).pipe[i].chain :
              i \in {n \in 1..Len(Head(nodes).pipe) : Head(nodes).pipe[n].t = "field"}}
         \cup Chains(Head(nodes).list)
         \cup Chains(Head(nodes).elseList)
         \cup Chains(Tail(nodes))

\* The field chains that the template evaluates, none when it is not one
\* that Parse accepts.
Fields(value) == Chains(parseTemplate(value).nodes)

\* The keys that the templates of the request look up in .Local.
LocalRefs(request) ==
    UNION { {chain[2] : chain \in {c \in Fields(value) : Len(c) >= 2 /\ c[1] = LitLocal}} :
            value \in Templates(request) }

\* The local variables of the other requests of the parsed File that
\* request i does not define itself.
ForeignLocals(i) ==
    UNION {DOMAIN result.file.Requests[j].Vars :
               j \in (1..Len(result.file.Requests)) \ {i}}
        \ DOMAIN result.file.Requests[i].Vars

\* C18: every request is resolved with a scope whose globals are the
\* file's variables and which holds no local variable of a request resolved
\* before it; a file in which some request refers to a local variable that
\* only another request defines does not resolve.
C18_Isolation ==
    resolved.done =>
        /\ \A i \in 1..Len(resolved.scopes) :
               resolved.scopes[i] = Scope(result.file.Vars, NilMap)
        /\ ResolvedOK =>
               \A i \in 1..Len(result.file.Requests) :
                   LocalRefs(result.file.Requests[i]) \cap ForeignLocals(i) = {}

\* The second request of a file refers to a local variable of the first,
\* the first request has been resolved and resolving the second has failed.
C18_Witness ==
    /\ resolved.done
    /\ resolved.err = "failed to execute request header templating for request %s: %w"
    /\ Len(result.file.Requests) = 2
    /\ Len(resolved.scopes) = 2
    /\ DOMAIN result.file.Requests[1].Vars # {}
    /\ LocalRefs(result.file.Requests[2]) \cap ForeignLocals(2) # {}

\* Every key that the template looks up is defined: a .Global key in the
\* file's variables, a .Local key in the variables of the request.
KeysDefined(value, request0) ==
    With(request0, LAMBDA request :
        /\ parseTemplate(value).err = ""
        /\ \A chain \in Fields(value) :
               /\ Len(chain) = 2
               /\ \/ /\ chain[1] = LitGlobal
                     /\ chain[2] \in DOMAIN result.file.Vars
                  \/ /\ chain[1] = LitLocal
                     /\ chain[2] \in DOMAIN request.Vars)

VarErrors ==
    { "invalid template syntax in var %s: %w",
      "failed to execute request variable templating for request %s: %w" }

\* C19: when every key that the values of the request-scoped variables
\* refer to is defined, as a global variable or as a local variable of the
\* same request, resolving the variables of the requests does not fail.
C19_LocalsResolve ==
    (/\ resolved.done
     /\ \A i \in 1..Len(result.file.Requests) :
            \A v \in DOMAIN result.file.Requests[i].Vars :
                KeysDefined(result.file.Requests[i].Vars[v], result.file.Requests[i]))
        => resolved.err \notin VarErrors

----------------------------------------------------------------------------
(* Properties of the resolved timeouts *)

\* d >= 10ms
AtLeast10ms(d) == ~d.neg /\ (d.sec > 0 \/ d.nsec >= 10000000)

\* C20: in every file that was parsed and resolved without error, the
\* timeout and the connection timeout of the file and of each of its
\* requests are at least 10ms.
C20_TimeoutsAtLeast10ms ==
    ResolvedOK =>
        /\ AtLeast10ms(resolved.file.Timeout)
        /\ AtLeast10ms(resolved.file.ConnectionTimeout)
        /\ \A i \in 1..Len(resolved.file.Requests) :
               /\ AtLeast10ms(resolved.file.Requests[i].Timeout)
               /\ AtLeast10ms(resolved.file.Requests[i].ConnectionTimeout)

----------------------------------------------------------------------------
(* Properties of the defaults of the resolver *)

\* What resolution makes of a raw timeout: 30s when it is zero.
TimeoutOf(raw) == IF raw = ZeroDuration THEN DefaultTimeout ELSE raw

\* What resolution makes of a raw connection timeout: 10s when it is zero.
ConnectionTimeoutOf(raw) ==
    IF raw = ZeroDuration THEN DefaultConnectionTimeout ELSE raw

\* C21: in every file that was resolved without error, the timeout of the
\* file and of each request is 30s when the raw value is zero and the raw
\* value otherwise, and the connection timeout is 10s when the raw value is
\* zero and the raw value otherwise.
C21_DefaultsWhenZero ==
    ResolvedOK =>
        /\ resolved.file.Timeout = TimeoutOf(result.file.Timeout)
        /\ resolved.file.ConnectionTimeout =
               ConnectionTimeoutOf(result.file.ConnectionTimeout)
        /\ Len(resolved.file.Requests) = Len(result.file.Requests)
        /\ \A i \in 1..Len(resolved.file.Requests) :
               /\ resolved.file.Requests[i].Timeout =
                      TimeoutOf(result.file.Requests[i].Timeout)
               /\ resolved.file.Requests[i].ConnectionTimeout =
                      ConnectionTimeoutOf(result.file.Requests[i].ConnectionTimeout)

\* A request with @timeout = 5s and no connection timeout has been resolved
\* to a timeout of 5s and a connection timeout of 10s.
C21_Witness ==
    /\ ResolvedOK
    /\ Len(result.file.Requests) = 1
    /\ result.file.Requests[1].Timeout = Duration(FALSE, 5, 0)
    /\ result.file.Requests[1].ConnectionTimeout = ZeroDuration
    /\ resolved.file.Requests[1].Timeout = Duration(FALSE, 5, 0)
    /\ resolved.file.Requests[1].ConnectionTimeout = Duration(FALSE, 10, 0)

----------------------------------------------------------------------------
(* Properties of the strings of a resolved File *)

\* Some value of the map contains {{.
OpenerIn(m0) ==
    With(m0, LAMBDA m : \E k \in DOMAIN m : Contains(m[k], LitOpen))

\* Some string of the resolved request contains {{.
OpenerInRequest(request0) ==
    With(request0, LAMBDA request :
        \/ OpenerIn(request.Vars)
        \/ OpenerIn(request.Headers)
        \/ Contains(request.URL, LitOpen)
        \/ Contains(request.Body, LitOpen))

\* C22: in every file that was resolved without error no value of a global
\* variable, value of a request variable, header value, URL or body
\* contains the template opener {{.
C22_NoOpenerResolved ==
    ResolvedOK =>
        /\ ~OpenerIn(resolved.file.Vars)
        /\ \A i \in 1..Len(resolved.file.Requests) :
               ~OpenerInRequest(resolved.file.Requests[i])

----------------------------------------------------------------------------
(* Properties of the outcome of ResolveFile *)

\* Some template of the request looks up a key that is defined neither as
\* a variable of the file (.Global) nor as a variable of the request
\* (.Local).
UndefinedKey(request0) ==
    With(request0, LAMBDA request :
        \E value \in Templates(request) :
            /\ parseTemplate(value).err = ""
            /\ ~KeysDefined(value, request))

SomeUndefinedKey ==
    \E i \in 1..Len(result.file.Requests) : UndefinedKey(result.file.Requests[i])

\* The resolved File has one request per request of the parsed File, in the
\* order of the file.
OnePerRequest ==
    /\ Len(resolved.file.Requests) = Len(result.file.Requests)
    /\ \A i \in 1..Len(result.file.Requests) :
           /\ resolved.file.Requests[i].Name = result.file.Requests[i].Name
           /\ resolved.file.Requests[i].Method = result.file.Requests[i].Method

ResolveFailed == resolved.err # "" /\ resolved.file = ZeroResolvedFile

\* C23 as stated: ResolveFile returns an error and the zero File when some
\* request refers to an undefined key, and in every other case a File with
\* one resolved request per raw request, in file order.
C23_ErrorOnlyForUndefinedKey ==
    resolved.done =>
        IF SomeUndefinedKey THEN ResolveFailed
        ELSE resolved.err = "" /\ OnePerRequest

\* C23 (amended): ResolveFile returns an error and the zero File when some
\* request refers to an undefined key; whenever it returns an error the File
\* is the zero File, and whenever it returns no error the File has one
\* resolved request per raw request, in file order.
C23_AllOrNothing ==
    resolved.done =>
        /\ SomeUndefinedKey => ResolveFailed
        /\ resolved.err # "" => resolved.file = ZeroResolvedFile
        /\ resolved.err = "" => OnePerRequest

\* The first request of a file resolves and the second refers to an
\* undefined key: ResolveFile has returned an error and the zero File.
C23_Witness ==
    /\ resolved.done
    /\ Len(result.file.Requests) = 2
    /\ ~UndefinedKey(result.file.Requests[1])
    /\ UndefinedKey(result.file.Requests[2])
    /\ Len(resolved.scopes) = 2
    /\ ResolveFailed

----------------------------------------------------------------------------
(* Properties of the console handler *)

\* C24: calls of the handler that PrettyConsoleHandler returns exclude each
\* other: the scanner's worker and the parser are never both inside a call,
\* and the writes of one call are not separated by a write of another.
C24_SinkExclusive ==
    /\ ~(InHandler("scanner") /\ InHandler("parser"))
    /\ \A i \in 1..Len(console.out) : \A k \in i..Len(console.out) :
           console.out[i].call = console.out[k].call =>
               \A j \in i..k : console.out[j].call = console.out[i].call

----------------------------------------------------------------------------
(* Properties of the parser's recovery *)

\* ###\n@a = 1\n###\nGET http://a\n
LitNoMethodThenRequest ==
    <<35, 35, 35, 10, 64, 97, 32, 61, 32, 49, 10, 35, 35, 35, 10, 71, 69, 84, 32, 104,
      116, 116, 112, 58, 47, 47, 97, 10>>

\* The calls of the handler that the parser has made.
ParserReports == SelectSeq(sink, LAMBDA c : c.by = "parser")

\* C25: when the source is a request without a method followed by a
\* well-formed request (###\n@a = 1\n and ###\nGET http://a\n), the parser
\* reports the missing method and nothing else: no diagnostic for a token it
\* skips and none for the request that follows.
C25_AbandonsOneRequest ==
    (src = LitNoMethodThenRequest /\ hasHandler /\ cstate = "returned") =>
        /\ Len(ParserReports) = 1
        /\ ParserReports[1].msg =
               "request separators must be followed by either a name or a HTTP method, got %s"

----------------------------------------------------------------------------
(* Properties of the = of a directive *)

\* ###\n@a = 1\nGET http://a\n
LitVarEq ==
    <<35, 35, 35, 10, 64, 97, 32, 61, 32, 49, 10, 71, 69, 84, 32, 104, 116, 116, 112,
      58, 47, 47, 97, 10>>

\* ###\n@a 1\nGET http://a\n
LitVarSpace ==
    <<35, 35, 35, 10, 64, 97, 32, 49, 10, 71, 69, 84, 32, 104, 116, 116, 112, 58, 47,
      47, 97, 10>>

\* ###\n@timeout = 5s\nGET http://a\n
LitTimeoutEq ==
    <<35, 35, 35, 10, 64, 116, 105, 109, 101, 111, 117, 116, 32, 61, 32, 53, 115, 10,
      71, 69, 84, 32, 104, 116, 116, 112, 58, 47, 47, 97, 10>>

\* ###\n@timeout 5s\nGET http://a\n
LitTimeoutSpace ==
    <<35, 35, 35, 10, 64, 116, 105, 109, 101, 111, 117, 116, 32, 53, 115, 10, 71, 69,
      84, 32, 104, 116, 116, 112, 58, 47, 47, 97, 10>>

\* @a = 1\n###\nGET http://a\n
LitFileVarEq ==
    <<64, 97, 32, 61, 32, 49, 10, 35, 35, 35, 10, 71, 69, 84, 32, 104, 116,
      116, 112, 58, 47, 47, 97, 10>>

\* @a 1\n###\nGET http://a\n
LitFileVarSpace ==
    <<64, 97, 32, 49, 10, 35, 35, 35, 10, 71, 69, 84, 32, 104, 116, 116, 112,
      58, 47, 47, 97, 10>>

\* ###\n# @name = a\nGET http://a\n
LitNameEq ==
    <<35, 35, 35, 10, 35, 32, 64, 110, 97, 109, 101, 32, 61, 32, 97, 10, 71,
      69, 84, 32, 104, 116, 116, 112, 58, 47, 47, 97, 10>>

\* ###\n# @name a\nGET http://a\n
LitNameSpace ==
    <<35, 35, 35, 10, 35, 32, 64, 110, 97, 109, 101, 32, 97, 10, 71, 69, 84,
      32, 104, 116, 116, 112, 58, 47, 47, 97, 10>>

\* @connection-timeout = 1s\n###\nGET http://a\n
LitFileConnectionEq ==
    <<64, 99, 111, 110, 110, 101, 99, 116, 105, 111, 110, 45, 116, 105, 109,
      101, 111, 117, 116, 32, 61, 32, 49, 115, 10, 35, 35, 35, 10, 71, 69, 84,
      32, 104, 116, 116, 112, 58, 47, 47, 97, 10>>

\* @connection-timeout 1s\n###\nGET http://a\n
LitFileConnectionSpace ==
    <<64, 99, 111, 110, 110, 101, 99, 116, 105, 111, 110, 45, 116, 105, 109,
      101, 111, 117, 116, 32, 49, 115, 10, 35, 35, 35, 10, 71, 69, 84, 32,
      104, 116, 116, 112, 58, 47, 47, 97, 10>>

\* C26: a directive written with = and the same directive written with a
\* space instead give the same File and the same diagnostics: the request
\* variable @a = 1 and @a 1 both parse without diagnostic to a request whose
\* variable a is 1, the request timeout @timeout = 5s and @timeout 5s both
\* to a timeout of 5s, the file variable @a = 1 and @a 1 both to a File
\* whose variable a is 1, the request name @name = a and @name a both to
\* the name a, and the file connection timeout @connection-timeout = 1s and
\* @connection-timeout 1s both to a connection timeout of 1s.
C26_EqOptional ==
    result.done =>
        /\ src \in {LitFileVarEq, LitFileVarSpace} =>
               /\ ~result.err
               /\ ParserReports = <<>>
               /\ DOMAIN result.file.Vars = {<<97>>}
               /\ result.file.Vars[<<97>>] = <<49>>
               /\ Len(result.file.Requests) = 1
        /\ src \in {LitNameEq, LitNameSpace} =>
               /\ ~result.err
               /\ ParserReports = <<>>
               /\ Len(result.file.Requests) = 1
               /\ result.file.Requests[1].Name = <<97>>
        /\ src \in {LitFileConnectionEq, LitFileConnectionSpace} =>
               /\ ~result.err
               /\ ParserReports = <<>>
               /\ result.file.ConnectionTimeout = Duration(FALSE, 1, 0)
               /\ Len(result.file.Requests) = 1
        /\ src \in {LitVarEq, LitVarSpace} =>
               /\ ~result.err
               /\ ParserReports = <<>>
               /\ Len(result.file.Requests) = 1
               /\ DOMAIN result.file.Requests[1].Vars = {<<97>>}
               /\ result.file.Requests[1].Vars[<<97>>] = <<49>>
        /\ src \in {LitTimeoutEq, LitTimeoutSpace} =>
               /\ ~result.err
               /\ ParserReports = <<>>
               /\ Len(result.file.Requests) = 1
               /\ result.file.Requests[1].Timeout = Duration(FALSE, 5, 0)

----------------------------------------------------------------------------
(* Properties of the rendered text *)

\* The request that Parse returned has the fields of the resolved request.
SameRequest(raw, request) ==
    /\ raw.Vars = request.Vars
    /\ raw.Headers = request.Headers
    /\ raw.Prompts = request.Prompts
    /\ raw.Name = request.Name
    /\ raw.Comment = request.Comment
    /\ raw.Method = request.Method
    /\ raw.URL = request.URL
    /\ raw.HTTPVersion = request.HTTPVersion
    /\ raw.BodyFile = request.BodyFile
    /\ raw.ResponseRef = request.ResponseFile
    /\ raw.Body = request.Body
    /\ raw.Timeout = request.Timeout
    /\ raw.ConnectionTimeout = request.ConnectionTimeout
    /\ raw.NoRedirect = request.NoRedirect

\* The File that Parse returned has the fields of the resolved File; maps
\* are compared as maps, whatever the order of their keys.
SameFile(raw, file) ==
    /\ raw.Name = file.Name
    /\ raw.Vars = file.Vars
    /\ raw.Prompts = file.Prompts
    /\ raw.Timeout = file.Timeout
    /\ raw.ConnectionTimeout = file.ConnectionTimeout
    /\ raw.NoRedirect = file.NoRedirect
    /\ Len(raw.Requests) = Len(file.Requests)
    /\ \A i \in 1..Len(file.Requests) : SameRequest(raw.Requests[i], file.Requests[i])

\* The text of the resolved File has been parsed again.
ParsedAgain == resolved.done /\ cstate = "returned" /\ result.done

\* C27: when the text that File.String gives for a resolved File is parsed
\* again, Parse returns no error and a File equal to the resolved File.
C27_RoundTrip ==
    ParsedAgain => ~result.err /\ SameFile(result.file, resolved.file)

----------------------------------------------------------------------------
(* Properties of the inline body *)

\* C28: in every File that Parse returns without error, the inline body of
\* a request neither begins nor ends with a whitespace byte.
C28_BodyTrimmed ==
    ParsedOK =>
        \A i \in 1..Len(result.file.Requests) :
            result.file.Requests[i].Body # <<>> =>
                /\ ~IsSpace(result.file.Requests[i].Body[1])
                /\ ~IsSpace(result.file.Requests[i].Body[Len(result.file.Requests[i].Body)])

----------------------------------------------------------------------------
(* Properties of a timeout directive with a bad value *)

\* @timeout x\n###\nGET http://a\n
LitTimeoutBad ==
    <<64, 116, 105, 109, 101, 111, 117, 116, 32, 120, 10, 35, 35, 35, 10, 71, 69, 84,
      32, 104, 116, 116, 112, 58, 47, 47, 97, 10>>

\* @timeout\n###\nGET http://a\n
LitTimeoutMissing ==
    <<64, 116, 105, 109, 101, 111, 117, 116, 10, 35, 35, 35, 10, 71, 69, 84, 32, 104,
      116, 116, 112, 58, 47, 47, 97, 10>>

\* ###\n@connection-timeout x\nGET http://a\n
LitConnectionTimeoutBad ==
    <<35, 35, 35, 10, 64, 99, 111, 110, 110, 101, 99, 116, 105, 111, 110, 45, 116, 105,
      109, 101, 111, 117, 116, 32, 120, 10, 71, 69, 84, 32, 104, 116, 116, 112, 58, 47,
      47, 97, 10>>

\* The column, counted from 1, of the byte at an offset of the source.
ColumnOf(offset) ==
    1 + offset - Cardinality({i \in 1..offset : \E j \in i..offset : src[j] = 10})

\* The tokens of kind Text the parser has received: the values of the
\* directives.
Values == SelectSeq(Toks, LAMBDA t : t.Kind = "Text")

\* C29: a @timeout or @connection-timeout whose value is missing or is no
\* duration gives exactly one diagnostic, at the columns of the value when
\* there is one, and Parse returns the error.
C29_OneDiagnostic ==
    (/\ src \in {LitTimeoutBad, LitTimeoutMissing, LitConnectionTimeoutBad}
     /\ hasHandler
     /\ cstate = "returned") =>
        /\ Len(ParserReports) = 1
        /\ result.err
        /\ Values # <<>> =>
               /\ ParserReports[1].pos.StartCol = ColumnOf(Values[1].Start)
               /\ ParserReports[1].pos.EndCol = ColumnOf(Values[1].End)

\* The same for the directives that have a value: one diagnostic at the
\* columns of the value.
BadValueOneDiagnostic ==
    (/\ src \in {LitTimeoutBad, LitConnectionTimeoutBad}
     /\ hasHandler
     /\ cstate = "returned") =>
        /\ Len(ParserReports) = 1
        /\ ParserReports[1].msg = "bad timeout value: %v"
        /\ result.err
        /\ ParserReports[1].pos.StartCol = ColumnOf(Values[1].Start)
        /\ ParserReports[1].pos.EndCol = ColumnOf(Values[1].End)

\* The directive without a value has been parsed.
MissingValueParsed == src = LitTimeoutMissing /\ hasHandler /\ cstate = "returned"

----------------------------------------------------------------------------
(* Properties of the settings a request is executed with *)

\* httpClient: the client built for a resolved request takes its timeout,
\* its dial timeout, its TLS handshake timeout and its redirect policy from
\* the request and from nothing else.
httpClient(request) ==
    [Timeout             |-> request.Timeout,
     DialTimeout         |-> request.Timeout,
     TLSHandshakeTimeout |-> request.ConnectionTimeout,
     NoRedirect          |-> request.NoRedirect]

\* C30: in every file that was resolved without error, the client of each
\* request has the request's own timeout, connection timeout and no-redirect
\* setting when the raw request sets them, and those of the resolved file
\* otherwise.
C30_RequestOrFileSettings ==
    ResolvedOK =>
        \A i \in 1..Len(resolved.file.Requests) :
            /\ httpClient(resolved.file.Requests[i]).Timeout =
                   IF result.file.Requests[i].Timeout # ZeroDuration
                   THEN result.file.Requests[i].Timeout
                   ELSE resolved.file.Timeout
            /\ httpClient(resolved.file.Requests[i]).TLSHandshakeTimeout =
                   IF result.file.Requests[i].ConnectionTimeout # ZeroDuration
                   THEN result.file.Requests[i].ConnectionTimeout
                   ELSE resolved.file.ConnectionTimeout
            /\ httpClient(resolved.file.Requests[i]).NoRedirect =
                   (result.file.Requests[i].NoRedirect \/ resolved.file.NoRedirect)

\* The same for the settings the raw request sets itself: the client has
\* the request's own timeout and connection timeout, and follows no
\* redirect when the request says so.
OwnSettingsKept ==
    ResolvedOK =>
        \A i \in 1..Len(resolved.file.Requests) :
            /\ result.file.Requests[i].Timeout # ZeroDuration =>
                   httpClient(resolved.file.Requests[i]).Timeout =
                       result.file.Requests[i].Timeout
            /\ result.file.Requests[i].ConnectionTimeout # ZeroDuration =>
                   httpClient(resolved.file.Requests[i]).TLSHandshakeTimeout =
                       result.file.Requests[i].ConnectionTimeout
            /\ result.file.Requests[i].NoRedirect =>
                   httpClient(resolved.file.Requests[i]).NoRedirect

----------------------------------------------------------------------------
(* Properties of the places of URL, Header and Body tokens *)

\* The token before the i-th emitted token is the value of a header: a Text
\* that follows a Colon.
AfterHeaderValue(i) ==
    /\ i > 2
    /\ Emitted[i - 1].Kind = "Text"
    /\ Emitted[i - 2].Kind = "Colon"

\* The i-th emitted token follows a URL, an HTTP version or a header value.
AfterRequestLine(i) ==
    /\ i > 1
    /\ \/ Emitted[i - 1].Kind \in {"URL", "HTTPVersion"}
       \/ AfterHeaderValue(i)

\* C31: among the tokens emitted so far, a URL comes directly after a
\* method, an At or an Eq, and a Header or a Body comes directly after a
\* URL, an HTTPVersion or the Text that is the value of a header.
C31_AdmittedContexts ==
    \A i \in 1..Len(Emitted) :
        /\ Emitted[i].Kind = "URL" =>
               /\ i > 1
               /\ \/ IsMethod(Emitted[i - 1].Kind)
                  \/ Emitted[i - 1].Kind \in {"At", "Eq"}
        /\ Emitted[i].Kind \in {"Header", "Body"} => AfterRequestLine(i)

\* A URL after a method, then a Header after the URL and a Body after the
\* value of the header have been emitted.
C31_Witness ==
    \E i \in 2..Len(Emitted) :
        /\ Emitted[i].Kind = "URL"
        /\ IsMethod(Emitted[i - 1].Kind)
        /\ \E j \in (i + 1)..Len(Emitted) : Emitted[j].Kind = "Header" /\ j = i + 1
        /\ \E k \in (i + 1)..Len(Emitted) : Emitted[k].Kind = "Body" /\ AfterHeaderValue(k)

----------------------------------------------------------------------------
(* Properties of the HTTP version *)

\* str is one or more digits.
IsDigits(str) == str # <<>> /\ \A i \in 1..Len(str) : isDigit(str[i])

\* str is one or more digits, or digits, one '.' and one or more digits.
IsVersionNumber(str) ==
    \/ IsDigits(str)
    \/ \E k \in 2..(Len(str) - 1) :
           /\ str[k] = 46
           /\ IsDigits(SubSeq(str, 1, k - 1))
           /\ IsDigits(SubSeq(str, k + 1, Len(str)))

\* str is HTTP/ and a version number.
IsVersion(str) ==
    /\ Len(str) > httpLen
    /\ SubSeq(str, 1, httpLen) = LitHTTPVer
    /\ IsVersionNumber(SubSeq(str, httpLen + 1, Len(str)))

\* The offsets of the source where HTTP/ follows a URL and what comes next is
\* not the start of a version number.
MalformedVersions ==
    {p \in 0..(Len(src) - httpLen) :
        /\ Slice(p, p + httpLen) = LitHTTPVer
        /\ \E i \in 1..Len(Emitted) : Emitted[i].Kind = "URL" /\ Emitted[i].End < p
                                      /\ \A q \in Emitted[i].End..(p - 1) : src[q + 1] = 32
        /\ ~(p + httpLen < Len(src) /\ isDigit(src[p + httpLen + 1]))}

\* C32: the text of every HTTPVersion token emitted is HTTP/ and a version
\* number, and once the worker is done with a source in which HTTP/ after a
\* URL is followed by something that is not a digit, the scanner has
\* reported a bad number literal and the last token is Error.
C32_VersionWellFormed ==
    /\ \A i \in 1..Len(Emitted) :
           Emitted[i].Kind = "HTTPVersion" =>
               IsVersion(Slice(Emitted[i].Start, Emitted[i].End))
    /\ (closed /\ hasHandler /\ MalformedVersions # {}) =>
           /\ Emitted[Len(Emitted)].Kind = "Error"
           /\ \E j \in 1..Len(ScannerCalls) :
                  ScannerCalls[j].msg = "bad number literal in HTTP version, illegal char %q"

\* ###\nGET http://a HTTP/-1\n
LitVersionNoDigit ==
    <<35, 35, 35, 10, 71, 69, 84, 32, 104, 116, 116, 112, 58, 47, 47, 97, 32, 72, 84,
      84, 80, 47, 45, 49, 10>>

\* The same apart from the version without a digit: every other sample has
\* well-formed HTTPVersion tokens, and a fraction without a digit is reported.
VersionWithDigit == src # LitVersionNoDigit => C32_VersionWellFormed

\* HTTP/1.1 has been emitted as a token, and HTTP/1.x has been reported.
VersionsScanned ==
    \/ \E i \in 1..Len(Emitted) :
           /\ Emitted[i].Kind = "HTTPVersion"
           /\ Slice(Emitted[i].Start, Emitted[i].End) = LitHTTPVer \o <<49, 46, 49>>
    \/ \E j \in 1..Len(ScannerCalls) :
           ScannerCalls[j].msg = "bad number literal in HTTP version, illegal char %q"

----------------------------------------------------------------------------
(* Properties of the positions the parser reports *)

\* Position.IsValid
IsValid(pos) ==
    ~(\/ pos.Name = <<>>
      \/ pos.Line < 1
      \/ pos.StartCol < 1
      \/ pos.EndCol < 1
      \/ (pos.EndCol >= 1 /\ pos.EndCol < pos.StartCol))

\* The number of newlines among the bytes of the source before an offset.
NewlinesBefore(offset) == Cardinality({j \in 1..offset : src[j] = 10})

\* The offset of the first byte of the line an offset is on.
LineStart(offset) ==
    Cardinality({j \in 1..offset : \E k \in j..offset : src[k] = 10})

\* The token that was current and the token that was next when Parse made
\* its i-th call of error.
CurrentAt(i) == Parsed.p.calls[i].current

NextAt(i) == Parsed.p.calls[i].next

\* C33: when Parse has returned with a handler installed, every position it
\* passed to the handler is valid, its line is one plus the number of
\* newlines before the start of the token that was current, its end column
\* is that of the end of the current token, and its start column is that of
\* the end of the current token when the next token was EOF and that of its
\* start otherwise.
C33_PositionsValid ==
    (cstate = "returned" /\ hasHandler) =>
        /\ Len(ParserReports) = Len(Parsed.p.calls)
        /\ \A i \in 1..Len(ParserReports) :
               /\ IsValid(ParserReports[i].pos)
               /\ ParserReports[i].pos.Line = 1 + NewlinesBefore(CurrentAt(i).Start)
               /\ ParserReports[i].pos.EndCol =
                      1 + CurrentAt(i).End - LineStart(CurrentAt(i).Start)
               /\ ParserReports[i].pos.StartCol =
                      1 + (IF NextAt(i).Kind = "EOF" THEN CurrentAt(i).End
                           ELSE CurrentAt(i).Start) - LineStart(CurrentAt(i).Start)

\* Parse has returned after a report made on a line after the first when the
\* next token was EOF and the current token was not empty.
C33_Witness ==
    /\ cstate = "returned"
    /\ hasHandler
    /\ \E i \in 1..Len(ParserReports) :
           /\ i <= Len(Parsed.p.calls)
           /\ NextAt(i).Kind = "EOF"
           /\ CurrentAt(i).End > CurrentAt(i).Start
           /\ ParserReports[i].pos.Line > 1

----------------------------------------------------------------------------
(* Properties of the scanner's one report *)

\* The last token emitted so far is Error.
EndsWithError == Emitted # <<>> /\ Emitted[Len(Emitted)].Kind = "Error"

\* C34: the scanner calls the handler at most once; once it has called it,
\* the worker has left its last state with nothing more to send and the last
\* token emitted is Error; and when the channel is closed with a handler
\* installed, the handler has been called exactly once if and only if the
\* tokens end with Error.
C34_OneReportThenHalt ==
    /\ Len(ScannerCalls) <= 1
    /\ ScannerCalls # <<>> => (state = "nil" /\ pending = <<>> /\ EndsWithError)
    /\ (closed /\ hasHandler) => (Len(ScannerCalls) = 1 <=> EndsWithError)

\* The channel is closed after the handler was called once, for an Error
\* that came after two tokens or more.
C34_Witness ==
    /\ closed
    /\ hasHandler
    /\ Len(ScannerCalls) = 1
    /\ Len(Emitted) >= 3
    /\ EndsWithError

----------------------------------------------------------------------------
(* Properties of the delivery of the scanner's reports *)

\* What the handler has written for the scanner so far.
ScannerWritten == SelectSeq(console.out, LAMBDA w : w.by = "scanner")

\* C35: when Parse has returned, the scanner is in no call of the handler,
\* every Error token the parser received has its call of the handler in the
\* sink, and every write of each call the scanner made has reached the
\* output.
C35_ScannerReportsDelivered ==
    cstate = "returned" =>
        /\ ~InHandler("scanner")
        /\ ErrorReceived => Len(ScannerCalls) = 1
        /\ \A i \in 1..Len(ScannerCalls) :
               Len(SelectSeq(ScannerWritten, LAMBDA w : sink[w.call] = ScannerCalls[i])) =
                   Writes(ScannerCalls[i].pos)

\* Parse has returned after the scanner reported an error, and all the
\* writes of the report are in the output.
C35_Witness ==
    /\ cstate = "returned"
    /\ ErrorReceived
    /\ Len(ScannerCalls) = 1
    /\ Len(ScannerWritten) = Writes(ScannerCalls[1].pos)
    /\ Len(ScannerWritten) >= 2

----------------------------------------------------------------------------
(* Properties of the channel between the worker and its consumer *)

\* The consumer is in a receive: a call of Scan, or an iteration of All.
Receiving ==
    \/ consumer = "scan" /\ ClosedReceives(got) < MaxExtraScans
    \/ consumer = "all" /\ cstate = "run"

\* The worker has not finished and can take no step.
WorkerWaits == ~closed /\ ~ENABLED Worker

\* The consumer is in a receive that cannot complete.
ConsumerWaits == Receiving /\ ~ENABLED (Scan \/ AllNext)

\* C36: the consumer waits only while the channel is empty and not closed,
\* the worker waits only in a send while the channel holds bufferSize
\* tokens, the two never wait at once, and as long as the terminal token has
\* not been received the worker can take a step or a receive can complete.
C36_NoDeadlock ==
    /\ ConsumerWaits => (tokens = <<>> /\ ~closed)
    /\ WorkerWaits =>
           (pending # <<>> /\ Head(pending).op = "send" /\ Len(tokens) = bufferSize)
    /\ ~(WorkerWaits /\ ConsumerWaits)
    /\ ~TerminalReceived => (ENABLED Worker \/ CanReceive)

\* The worker waits in a send with bufferSize tokens in the channel, and the
\* consumer, in a receive, can take one.
C36_Witness ==
    /\ WorkerWaits
    /\ Len(tokens) = bufferSize
    /\ Receiving
    /\ ENABLED (Scan \/ AllNext)

----------------------------------------------------------------------------
(* Properties of parsing with and without a handler *)

\* C37: when Parse has returned for a source that was parsed before without
\* a handler, it returns an error with the handler if and only if it
\* returned one without, and the two Files are equal.
C37_HandlerIndependent ==
    (cstate = "returned" /\ first.done) =>
        /\ hasHandler
        /\ result.err = first.err
        /\ result.file = first.file

\* Both parses of a source returned an error, with the handler called in
\* the second.
C37_Witness ==
    /\ cstate = "returned"
    /\ first.done
    /\ first.err
    /\ result.err
    /\ sink # <<>>

\* Both parses of a source returned the same File with a request in it.
BothParsesReturnFile ==
    /\ cstate = "returned"
    /\ first.done
    /\ ~first.err
    /\ result.file = first.file
    /\ Len(result.file.Requests) >= 1

----------------------------------------------------------------------------
(* Properties of a worker whose consumer has stopped *)

\* C38: once the consumer has left the loop over All() early, the worker,
\* scheduled fairly, goes on to close the channel: it does not stay in a
\* send for ever.
C38_WorkerEndsAfterBreak == (cstate = "broke") ~> closed

\* The consumer has left the loop over All() early and the worker is in a
\* send with bufferSize tokens in the channel that nobody will receive.
WorkerStuckInSend ==
    /\ cstate = "broke"
    /\ ~closed
    /\ pending # <<>>
    /\ Head(pending).op = "send"
    /\ Len(tokens) = bufferSize

\* The same for the sources whose tokens after the break fit in the
\* channel: the worker sends them all and closes the channel.
ShortSourceWorkerEnds == (cstate = "broke" /\ src # LongSource) ~> closed

----------------------------------------------------------------------------
(* Properties of a variable whose name begins with http *)

\* @base = https://httpbin.org\n###\nGET http://a\n
LitBaseVar ==
    <<64, 98, 97, 115, 101, 32, 61, 32, 104, 116, 116, 112, 115, 58, 47, 47, 104,
      116, 116, 112, 98, 105, 110, 46, 111, 114, 103, 10, 35, 35, 35, 10, 71, 69,
      84, 32, 104, 116, 116, 112, 58, 47, 47, 97, 10>>

\* @httpbin = https://httpbin.org\n###\nGET http://a\n
LitHttpbinVar ==
    <<64, 104, 116, 116, 112, 98, 105, 110, 32, 61, 32, 104, 116, 116, 112, 115, 58,
      47, 47, 104, 116, 116, 112, 98, 105, 110, 46, 111, 114, 103, 10, 35, 35, 35,
      10, 71, 69, 84, 32, 104, 116, 116, 112, 58, 47, 47, 97, 10>>

\* The index of the first byte b of the source.
FirstIndex(b) == CHOOSE i \in 1..Len(src) : src[i] = b /\ \A j \in 1..(i - 1) : src[j] # b

\* The identifier of the directive the source begins with: what stands
\* between the @ and the first space.
DirectiveIdent == SubSeq(src, 2, FirstIndex(32) - 1)

\* The value of the directive the source begins with: what stands between
\* "= " and the end of the first line.
DirectiveValue == SubSeq(src, FirstIndex(61) + 2, FirstIndex(10) - 1)

\* C39: the directive @<ident> = <value> at the top of a file is scanned as
\* At, Ident, Eq and the value, and Parse returns without error a File whose
\* variable <ident> is <value>, for the identifier base and for the
\* identifier httpbin.
C39_HttpIdentStored ==
    (src \in {LitBaseVar, LitHttpbinVar} /\ cstate = "returned") =>
        /\ Toks[1].Kind = "At"
        /\ Toks[2] = Token("Ident", 1, Len(DirectiveIdent) + 1)
        /\ Toks[3].Kind = "Eq"
        /\ Slice(Toks[4].Start, Toks[4].End) = DirectiveValue
        /\ ~result.err
        /\ DirectiveIdent \in DOMAIN result.file.Vars
        /\ result.file.Vars[DirectiveIdent] = DirectiveValue

\* The same for the identifier that does not begin with http.
OtherIdentStored == src # LitHttpbinVar => C39_HttpIdentStored

\* The file with the variable base has been parsed.
BaseVarParsed ==
    /\ src = LitBaseVar
    /\ cstate = "returned"
    /\ DirectiveIdent \in DOMAIN result.file.Vars

====
